---- MODULE Spec2Model ----
(***************************************************************************)
(* DLMS/COSEM client stack: the HDLC link state machine                    *)
(* (hdlc.HdlcConnectionState), the DLMS session state machine              *)
(* (dlms.DlmsConnectionState), the part of the xDLMS APDU factory that     *)
(* feeds the session state machine, and the codecs of the stack: CRC, HDLC *)
(* addresses, control fields and frames, BER, the ACSE release APDUs and   *)
(* the xDLMS ActionResponse and ExceptionResponse.                         *)
(***************************************************************************)
EXTENDS Integers, Sequences, FiniteSets, TLC

VARIABLES
    hdlcState,        \* HdlcConnectionState.CurrentState
    hdlcPrev,         \* CurrentState when the last ProcessFrame was entered
    hdlcFrame,        \* the frame given to the last ProcessFrame (NoFrame: no call yet)
    hdlcErr,          \* what the last ProcessFrame returned
    hdlcPrevErr,      \* what the ProcessFrame before the last one returned
    dlmsState,        \* DlmsConnectionState.currentState
    dlmsPrev,         \* currentState when the last ProcessEvent was entered
    dlmsEvent,        \* the event given to the last ProcessEvent (NoEvent: no call yet)
    dlmsErr,          \* what the last ProcessEvent returned
    rxErr,            \* whether the last inbound APDU failed to parse
    lastBlockNumber,  \* history: block-number of the last accepted GetResponseWithDataBlock
    requestInvokeId,  \* history: invoke-id of the last accepted GET/SET/ACTION request
    association,      \* history: how far the association got since NoAssociation was current
    op,               \* the codec call that was made ("none": no call yet)
    arg,              \* the input of the codec call
    ret               \* what the codec call returned, or that it panicked

hdlcVars == <<hdlcState, hdlcPrev, hdlcFrame, hdlcErr, hdlcPrevErr>>
dlmsVars == <<dlmsState, dlmsPrev, dlmsEvent, dlmsErr, rxErr,
              lastBlockNumber, requestInvokeId, association>>
codecVars == <<op, arg, ret>>
vars == <<hdlcState, hdlcPrev, hdlcFrame, hdlcErr, hdlcPrevErr,
          dlmsState, dlmsPrev, dlmsEvent, dlmsErr, rxErr,
          lastBlockNumber, requestInvokeId, association, op, arg, ret>>

(***************************************************************************)
(* Bounds of the model.                                                    *)
(***************************************************************************)
MaxInvokeId == 1
MaxBlockNumber == 2
MaxSeq == 3

(***************************************************************************)
(* HDLC link state machine                                                 *)
(***************************************************************************)
HdlcStateNotConnected == "NOT_CONNECTED"
HdlcStateIdle == "IDLE"
HdlcStateAwaitingResponse == "AWAITING_RESPONSE"
HdlcStateAwaitingConnection == "AWAITING_CONNECTION"
HdlcStateAwaitingDisconnect == "AWAITING_DISCONNECT"
HdlcStateClosed == "CLOSED"
HdlcStateNeedData == "NEED_DATA"

HdlcState ==
    {HdlcStateNotConnected, HdlcStateIdle, HdlcStateAwaitingResponse,
     HdlcStateAwaitingConnection, HdlcStateAwaitingDisconnect,
     HdlcStateClosed, HdlcStateNeedData}

FrameTypeSetNormalResponseMode == "SetNormalResponseModeFrame"
FrameTypeUnNumberedAcknowledgment == "UnNumberedAcknowledgmentFrame"
FrameTypeInformation == "InformationFrame"
FrameTypeReceiveReady == "ReceiveReadyFrame"
FrameTypeDisconnect == "DisconnectFrame"

FrameType ==
    {FrameTypeSetNormalResponseMode, FrameTypeUnNumberedAcknowledgment,
     FrameTypeInformation, FrameTypeReceiveReady, FrameTypeDisconnect}

\* The values a caller can hand to ProcessFrame(frame interface{}): a pointer
\* to one of the five frame structs, one of the structs by value, or a value
\* of another type altogether.
\* I-frames carry a send and a receive sequence number, RR frames a receive
\* sequence number (0 in a frame without the field).
Frame(type, ptr, ssn, rsn) ==
    [type |-> type, ptr |-> ptr, ssn |-> ssn, rsn |-> rsn]

\* No frame was given to ProcessFrame yet.
NoFrame == Frame("none", FALSE, 0, 0)

Frames ==
    {Frame(t, p, 0, 0) :
        t \in {FrameTypeSetNormalResponseMode, FrameTypeUnNumberedAcknowledgment,
                FrameTypeDisconnect},
        p \in BOOLEAN} \cup
    {Frame(FrameTypeInformation, p, s, r) :
        p \in BOOLEAN, s \in 0 .. MaxSeq, r \in 0 .. MaxSeq} \cup
    {Frame(FrameTypeReceiveReady, p, 0, r) : p \in BOOLEAN, r \in 0 .. MaxSeq} \cup
    {Frame("other", FALSE, 0, 0)}

\* Mutant: the type switch also matches the frame structs given by value.
getFrameType_ByValue(frame) ==
    IF frame.type \in FrameType THEN frame.type ELSE ""

\* The type switch matches the five pointer types only.
getFrameType(frame) ==
    IF frame.ptr /\ frame.type \in FrameType THEN frame.type ELSE ""

\* Mutant: no DISC in Idle.
hdlcStateTransitions_NoDisconnect ==
    (HdlcStateNotConnected :>
        (FrameTypeSetNormalResponseMode :> HdlcStateAwaitingConnection)) @@
    (HdlcStateAwaitingConnection :>
        (FrameTypeUnNumberedAcknowledgment :> HdlcStateIdle)) @@
    (HdlcStateIdle :>
        ((FrameTypeInformation :> HdlcStateAwaitingResponse) @@
         (FrameTypeReceiveReady :> HdlcStateAwaitingResponse))) @@
    (HdlcStateAwaitingResponse :>
        ((FrameTypeInformation :> HdlcStateIdle) @@
         (FrameTypeReceiveReady :> HdlcStateIdle))) @@
    (HdlcStateAwaitingDisconnect :>
        (FrameTypeUnNumberedAcknowledgment :> HdlcStateNotConnected))

\* Mutant: DISC is listed in every connected state.
hdlcStateTransitions_DiscAnywhere ==
    (HdlcStateNotConnected :>
        (FrameTypeSetNormalResponseMode :> HdlcStateAwaitingConnection)) @@
    (HdlcStateAwaitingConnection :>
        ((FrameTypeUnNumberedAcknowledgment :> HdlcStateIdle) @@
         (FrameTypeDisconnect :> HdlcStateAwaitingDisconnect))) @@
    (HdlcStateIdle :>
        ((FrameTypeInformation :> HdlcStateAwaitingResponse) @@
         (FrameTypeDisconnect :> HdlcStateAwaitingDisconnect) @@
         (FrameTypeReceiveReady :> HdlcStateAwaitingResponse))) @@
    (HdlcStateAwaitingResponse :>
        ((FrameTypeInformation :> HdlcStateIdle) @@
         (FrameTypeReceiveReady :> HdlcStateIdle) @@
         (FrameTypeDisconnect :> HdlcStateAwaitingDisconnect))) @@
    (HdlcStateAwaitingDisconnect :>
        (FrameTypeUnNumberedAcknowledgment :> HdlcStateNotConnected))

hdlcStateTransitions ==
    (HdlcStateNotConnected :>
        (FrameTypeSetNormalResponseMode :> HdlcStateAwaitingConnection)) @@
    (HdlcStateAwaitingConnection :>
        (FrameTypeUnNumberedAcknowledgment :> HdlcStateIdle)) @@
    (HdlcStateIdle :>
        ((FrameTypeInformation :> HdlcStateAwaitingResponse) @@
         (FrameTypeDisconnect :> HdlcStateAwaitingDisconnect) @@
         (FrameTypeReceiveReady :> HdlcStateAwaitingResponse))) @@
    (HdlcStateAwaitingResponse :>
        ((FrameTypeInformation :> HdlcStateIdle) @@
         (FrameTypeReceiveReady :> HdlcStateIdle))) @@
    (HdlcStateAwaitingDisconnect :>
        (FrameTypeUnNumberedAcknowledgment :> HdlcStateNotConnected))

\* m[k] of a Go map of maps: a key that is absent yields the nil map, whose
\* lookups all miss.
HdlcRow(state) ==
    IF state \in DOMAIN hdlcStateTransitions
    THEN hdlcStateTransitions[state]
    ELSE <<>>

\* Mutant: NotConnected is left out.
IsSendState_IdleOnly(state) ==
    state = HdlcStateIdle

IsSendState(state) ==
    state = HdlcStateNotConnected \/ state = HdlcStateIdle

\* Mutant: AwaitingDisconnect is left out.
IsReceiveState_NoDisconnect(state) ==
    \/ state = HdlcStateAwaitingConnection
    \/ state = HdlcStateAwaitingResponse

IsReceiveState(state) ==
    \/ state = HdlcStateAwaitingConnection
    \/ state = HdlcStateAwaitingResponse
    \/ state = HdlcStateAwaitingDisconnect

NewHdlcConnectionState ==
    /\ hdlcState = HdlcStateNotConnected
    /\ hdlcPrev = HdlcStateNotConnected
    /\ hdlcFrame = NoFrame
    /\ hdlcErr = "nil"
    /\ hdlcPrevErr = "nil"

ProcessFrame(frame) ==
    LET frameType == getFrameType(frame)
        row == HdlcRow(hdlcState)
        ok == frameType \in DOMAIN row
    IN  /\ hdlcPrev' = hdlcState
        /\ hdlcFrame' = frame
        /\ hdlcPrevErr' = hdlcErr
        /\ IF ~ok
           THEN /\ hdlcErr' = "LocalProtocolError"
                /\ hdlcState' = hdlcState
           ELSE /\ hdlcState' = row[frameType]
                /\ hdlcErr' = "nil"
        /\ UNCHANGED <<dlmsVars, codecVars>>

(***************************************************************************)
(* DLMS session state machine                                              *)
(***************************************************************************)
NoAssociation == "NO_ASSOCIATION"
AwaitingAssociationResponse == "AWAITING_ASSOCIATION_RESPONSE"
Ready == "READY"
AwaitingReleaseResponse == "AWAITING_RELEASE_RESPONSE"
AwaitingActionResponse == "AWAITING_ACTION_RESPONSE"
AwaitingGetResponse == "AWAITING_GET_RESPONSE"
AwaitingGetBlockResponse == "AWAITING_GET_BLOCK_RESPONSE"
ShouldAckLastGetBlock == "SHOULD_ACK_LAST_GET_BLOCK"
AwaitingSetResponse == "AWAITING_SET_RESPONSE"
ShouldSendHlsServerChallengeResult == "SHOULD_SEND_HLS_SEVER_CHALLENGE_RESULT"
AwaitingHlsClientChallengeResult == "AWAITING_HLS_CLIENT_CHALLENGE_RESULT"
HlsDone == "HLS_DONE"
NeedData == "NEED_DATA"

\* The sentinel states the package declares.
State ==
    {NoAssociation, AwaitingAssociationResponse, Ready, AwaitingReleaseResponse,
     AwaitingActionResponse, AwaitingGetResponse, AwaitingGetBlockResponse,
     ShouldAckLastGetBlock, AwaitingSetResponse,
     ShouldSendHlsServerChallengeResult, AwaitingHlsClientChallengeResult,
     HlsDone, NeedData}

\* enumerations.AssociationResult
AssociationResultAccepted == 0
AssociationResultRejectedPermanent == 1
AssociationResultRejectedTransient == 2

AssociationResult ==
    {AssociationResultAccepted, AssociationResultRejectedPermanent,
     AssociationResultRejectedTransient}

\* The struct types of the objects a caller can give to ProcessEvent.
FlowEventTypes ==
    {"HlsStart", "HlsSuccess", "HlsFailed", "RejectAssociation", "EndAssociation"}

GetRequestTypes ==
    {"xdlms.GetRequestNormal", "xdlms.GetRequestNext", "xdlms.GetRequestWithList"}

RequestTypes ==
    GetRequestTypes \cup {"xdlms.SetRequestNormal", "xdlms.ActionRequestNormal"}

GetResponseTypes ==
    {"xdlms.GetResponseNormal", "xdlms.GetResponseNormalWithError",
     "xdlms.GetResponseWithDataBlock", "xdlms.GetResponseWithList",
     "xdlms.GetResponseLastBlock", "xdlms.GetResponseLastBlockWithError"}

ResponseTypes ==
    GetResponseTypes \cup
    {"xdlms.SetResponseNormal", "xdlms.ActionResponseNormal",
     "xdlms.ActionResponseNormalWithData", "xdlms.ActionResponseNormalWithError"}

PlainApduTypes ==
    {"acse.ApplicationAssociationRequest", "acse.ReleaseRequest",
     "acse.ReleaseResponse", "xdlms.ExceptionResponse", "xdlms.DataNotification",
     "xdlms.InitiateRequest", "xdlms.InitiateResponse"}

EventTypes ==
    FlowEventTypes \cup RequestTypes \cup ResponseTypes \cup PlainApduTypes \cup
    {"acse.ApplicationAssociationResponse"}

InvokeIds == 0 .. MaxInvokeId
BlockNumbers == 1 .. MaxBlockNumber

\* An event object: its struct type, whether the caller passes a pointer to it
\* or the struct itself, and the fields the claims speak about (0 / FALSE in a
\* type without the field).
Ev(type, ptr, invokeId, blockNumber, lastBlock, result) ==
    [type |-> type, ptr |-> ptr, invokeId |-> invokeId,
     blockNumber |-> blockNumber, lastBlock |-> lastBlock, result |-> result]

\* No event was given to ProcessEvent yet.
NoEvent == Ev("none", FALSE, 0, 0, FALSE, 0)

\* reflect.TypeOf(event): the dynamic type, a struct type or a pointer type.
TypeOf(event) == [name |-> event.type, ptr |-> event.ptr]

\* reflect.TypeOf((*T)(nil)).Elem(): the struct type T.
ElemOfPtr(name) == [name |-> name, ptr |-> FALSE]

\* One entry of a row of the transition table: the struct type T, keyed as
\* reflect.TypeOf((*T)(nil)).Elem(), and the state it leads to.
On(name, target) == ElemOfPtr(name) :> target

\* Mutant: a GET request is served without an association.
TransitionsNoAssociation_ServesGet ==
    On("acse.ApplicationAssociationRequest", AwaitingAssociationResponse) @@
    On("xdlms.GetRequestNormal", AwaitingGetResponse)

TransitionsNoAssociation ==
    On("acse.ApplicationAssociationRequest", AwaitingAssociationResponse)

\* Mutant: the row also lists EndAssociation.
TransitionsAwaitingAssociationResponse_EndAssociation ==
    On("acse.ApplicationAssociationResponse", Ready) @@
    On("xdlms.ExceptionResponse", NoAssociation) @@
    On("EndAssociation", NoAssociation)

TransitionsAwaitingAssociationResponse ==
    On("acse.ApplicationAssociationResponse", Ready) @@
    On("xdlms.ExceptionResponse", NoAssociation)

TransitionsReady ==
    On("acse.ReleaseRequest", AwaitingReleaseResponse) @@
    On("xdlms.GetRequestNormal", AwaitingGetResponse) @@
    On("xdlms.SetRequestNormal", AwaitingSetResponse) @@
    On("HlsStart", ShouldSendHlsServerChallengeResult) @@
    On("RejectAssociation", NoAssociation) @@
    On("xdlms.ActionRequestNormal", AwaitingActionResponse) @@
    On("xdlms.DataNotification", Ready) @@
    On("EndAssociation", NoAssociation)

TransitionsShouldSendHlsServerChallengeResult ==
    On("xdlms.ActionRequestNormal", AwaitingHlsClientChallengeResult)

\* Mutant: the row copied from AwaitingActionResponse.
TransitionsAwaitingHlsClientChallengeResult_AsAction ==
    On("xdlms.ActionResponseNormal", Ready) @@
    On("xdlms.ActionResponseNormalWithData", Ready) @@
    On("xdlms.ActionResponseNormalWithError", Ready)

TransitionsAwaitingHlsClientChallengeResult ==
    On("xdlms.ActionResponseNormalWithData", HlsDone) @@
    On("xdlms.ActionResponseNormal", NoAssociation) @@
    On("xdlms.ActionResponseNormalWithError", NoAssociation)

TransitionsHlsDone ==
    On("HlsSuccess", Ready) @@
    On("HlsFailed", NoAssociation)

TransitionsAwaitingGetResponse ==
    On("xdlms.GetResponseNormal", Ready) @@
    On("xdlms.GetResponseWithDataBlock", ShouldAckLastGetBlock) @@
    On("xdlms.GetResponseNormalWithError", Ready) @@
    On("xdlms.ExceptionResponse", Ready)

\* Mutant: the row copied from AwaitingGetResponse.
TransitionsAwaitingGetBlockResponse_AsGetResponse ==
    TransitionsAwaitingGetResponse

TransitionsAwaitingGetBlockResponse ==
    On("xdlms.GetResponseWithDataBlock", ShouldAckLastGetBlock) @@
    On("xdlms.GetResponseNormalWithError", Ready) @@
    On("xdlms.ExceptionResponse", Ready)

\* Mutant: the SET response leads to NeedData.
TransitionsAwaitingSetResponse_NeedData ==
    On("xdlms.SetResponseNormal", NeedData)

TransitionsAwaitingSetResponse ==
    On("xdlms.SetResponseNormal", Ready)

TransitionsAwaitingActionResponse ==
    On("xdlms.ActionResponseNormal", Ready) @@
    On("xdlms.ActionResponseNormalWithData", Ready) @@
    On("xdlms.ActionResponseNormalWithError", Ready)

\* Mutant: the row also lists a new GET request.
TransitionsShouldAckLastGetBlock_NewGet ==
    On("xdlms.GetRequestNext", AwaitingGetBlockResponse) @@
    On("xdlms.GetRequestNormal", AwaitingGetResponse)

TransitionsShouldAckLastGetBlock ==
    On("xdlms.GetRequestNext", AwaitingGetBlockResponse)

TransitionsAwaitingReleaseResponse ==
    On("acse.ReleaseResponse", NoAssociation) @@
    On("xdlms.ExceptionResponse", Ready)

dlmsStateTransitions ==
    (NoAssociation :> TransitionsNoAssociation) @@
    (AwaitingAssociationResponse :> TransitionsAwaitingAssociationResponse) @@
    (Ready :> TransitionsReady) @@
    (ShouldSendHlsServerChallengeResult :> TransitionsShouldSendHlsServerChallengeResult) @@
    (AwaitingHlsClientChallengeResult :> TransitionsAwaitingHlsClientChallengeResult) @@
    (HlsDone :> TransitionsHlsDone) @@
    (AwaitingGetResponse :> TransitionsAwaitingGetResponse) @@
    (AwaitingGetBlockResponse :> TransitionsAwaitingGetBlockResponse) @@
    (AwaitingSetResponse :> TransitionsAwaitingSetResponse) @@
    (AwaitingActionResponse :> TransitionsAwaitingActionResponse) @@
    (ShouldAckLastGetBlock :> TransitionsShouldAckLastGetBlock) @@
    (AwaitingReleaseResponse :> TransitionsAwaitingReleaseResponse)

\* Mutant: the current state is assigned before the lookup's ok is tested.
transitionState_AssignsFirst(currentState, eventType) ==
    IF currentState \notin DOMAIN dlmsStateTransitions
    THEN [state |-> currentState, err |-> "error"]
    ELSE LET transitions == dlmsStateTransitions[currentState]
         IN  IF eventType \notin DOMAIN transitions
             THEN [state |-> "nil", err |-> "LocalDlmsProtocolError"]
             ELSE [state |-> transitions[eventType], err |-> "nil"]

\* transitionState: the new current state and the error returned.
transitionState(currentState, eventType) ==
    IF currentState \notin DOMAIN dlmsStateTransitions
    THEN [state |-> currentState, err |-> "error"]
    ELSE LET transitions == dlmsStateTransitions[currentState]
         IN  IF eventType \notin DOMAIN transitions
             THEN [state |-> currentState, err |-> "LocalDlmsProtocolError"]
             ELSE [state |-> transitions[eventType], err |-> "nil"]

(***************************************************************************)
(* GET responses as the APDU factory parses them                           *)
(***************************************************************************)
GetResponseTag == 196

\* enumerations.GetResponseType
GetResponseTypeNormal == 1
GetResponseWithBlock == 2
GetResponseTypeLastBlock == 4
GetResponseTypeLastBlockWithError == 5

ParseError == [err |-> TRUE]
Parsed(apdu) == [err |-> FALSE, apdu |-> apdu]

\* data[n:] of a Go slice, for n <= len(data).
Drop(data, n) == SubSeq(data, n + 1, Len(data))

\* binary.BigEndian.Uint32 of the first four bytes.
BigEndianUint32(data) ==
    data[1] * 16777216 + data[2] * 65536 + data[3] * 256 + data[4]

\* InvokeIdAndPriority.FromBytes: the invoke-id is the low nibble.
InvokeIdFromByte(val) == val % 16

\* The part every GET response parser starts with: tag, type choice and
\* invoke-id-and-priority.  Yields the bytes after them.
GetResponseHeader(data, typeChoice) ==
    IF Len(data) < 2 THEN ParseError
    ELSE IF data[1] # GetResponseTag THEN ParseError
    ELSE IF data[2] # typeChoice THEN ParseError
    ELSE IF Len(Drop(data, 2)) < 1 THEN ParseError
    ELSE [err |-> FALSE, invokeId |-> InvokeIdFromByte(data[3]), rest |-> Drop(data, 3)]

GetResponseNormalFromBytes(data) ==
    LET h == GetResponseHeader(data, GetResponseTypeNormal)
    IN  IF h.err THEN ParseError
        ELSE IF Len(h.rest) < 1 THEN ParseError
        ELSE IF h.rest[1] # 0 THEN ParseError
        ELSE Parsed(Ev("xdlms.GetResponseNormal", TRUE, h.invokeId, 0, FALSE, 0))

GetResponseNormalWithErrorFromBytes(data) ==
    LET h == GetResponseHeader(data, GetResponseTypeNormal)
    IN  IF h.err THEN ParseError
        ELSE IF Len(h.rest) < 1 THEN ParseError
        ELSE IF h.rest[1] # 1 THEN ParseError
        ELSE IF Len(Drop(h.rest, 1)) < 1 THEN ParseError
        ELSE Parsed(Ev("xdlms.GetResponseNormalWithError", TRUE, h.invokeId, 0, FALSE, 0))

GetResponseWithDataBlockFromBytes(data) ==
    LET h == GetResponseHeader(data, GetResponseWithBlock)
    IN  IF h.err THEN ParseError
        ELSE IF Len(h.rest) < 1 THEN ParseError
        ELSE LET lastBlock == h.rest[1] # 0
                 d1 == Drop(h.rest, 1)
             IN  IF Len(d1) < 4 THEN ParseError
                 ELSE LET blockNumber == BigEndianUint32(d1)
                          d2 == Drop(d1, 4)
                      IN  IF Len(d2) < 1 THEN ParseError
                          ELSE IF Len(Drop(d2, 1)) < d2[1] THEN ParseError
                          ELSE Parsed(Ev("xdlms.GetResponseWithDataBlock", TRUE,
                                         h.invokeId, blockNumber, lastBlock, 0))

\* Not implemented: always an error.
GetResponseWithListFromBytes(data) == ParseError

GetResponseLastBlockFromBytes(data) ==
    LET h == GetResponseHeader(data, GetResponseTypeLastBlock)
    IN  IF h.err THEN ParseError
        ELSE IF Len(h.rest) < 4 THEN ParseError
        ELSE LET blockNumber == BigEndianUint32(h.rest)
                 d2 == Drop(h.rest, 4)
             IN  IF Len(d2) < 1 THEN ParseError
                 ELSE IF Len(Drop(d2, 1)) < d2[1] THEN ParseError
                 ELSE Parsed(Ev("xdlms.GetResponseLastBlock", TRUE,
                                h.invokeId, blockNumber, FALSE, 0))

GetResponseLastBlockWithErrorFromBytes(data) ==
    LET h == GetResponseHeader(data, GetResponseTypeLastBlockWithError)
    IN  IF h.err THEN ParseError
        ELSE IF Len(h.rest) < 4 THEN ParseError
        ELSE IF Len(Drop(h.rest, 4)) < 1 THEN ParseError
        ELSE Parsed(Ev("xdlms.GetResponseLastBlockWithError", TRUE,
                       h.invokeId, BigEndianUint32(h.rest), FALSE, 0))

\* The factory's secondary dispatch on the type byte and, for a normal
\* response, on the choice byte.
GetResponseFromBytes(sourceBytes) ==
    IF Len(sourceBytes) < 2 THEN ParseError
    ELSE IF sourceBytes[1] # 196 THEN ParseError
    ELSE LET responseType == sourceBytes[2]
         IN  CASE responseType = 1 ->
                    IF Len(sourceBytes) >= 4 /\ sourceBytes[4] = 1
                    THEN GetResponseNormalWithErrorFromBytes(sourceBytes)
                    ELSE GetResponseNormalFromBytes(sourceBytes)
               [] responseType = 2 -> GetResponseWithDataBlockFromBytes(sourceBytes)
               [] responseType = 3 -> GetResponseWithListFromBytes(sourceBytes)
               [] responseType = 4 -> GetResponseLastBlockFromBytes(sourceBytes)
               [] responseType = 5 -> GetResponseLastBlockWithErrorFromBytes(sourceBytes)
               [] OTHER -> ParseError

(***************************************************************************)
(* Inputs                                                                  *)
(***************************************************************************)
\* Invoke-id-and-priority bytes of confirmed, high-priority services.
InvokeBytes == {192 + i : i \in InvokeIds}

\* GET response APDUs as they arrive from the meter, well-formed and not.
GetResponseWire ==
    {<<196, 1, b, 0, 0>> : b \in InvokeBytes} \cup
    {<<196, 1, b, 1, 3>> : b \in InvokeBytes} \cup
    {<<196, 2, b, l, 0, 0, 0, n, 1, 170>> :
        b \in InvokeBytes, l \in {0, 1}, n \in BlockNumbers} \cup
    {<<196, 3, b, 0>> : b \in InvokeBytes} \cup
    {<<196, 4, b, 0, 0, 0, n, 1, 170>> : b \in InvokeBytes, n \in BlockNumbers} \cup
    {<<196, 5, b, 0, 0, 0, n, 3>> : b \in InvokeBytes, n \in BlockNumbers} \cup
    {<<196>>, <<197, 1, 192, 0>>, <<196, 6, 192>>, <<196, 2, 192, 1, 0, 0>>}

\* The objects a caller builds and hands to ProcessEvent itself: the flow
\* events, the requests, and the parsed APDUs other than GET responses.
CallerEvents ==
    {Ev(t, p, 0, 0, FALSE, 0) : t \in FlowEventTypes \cup PlainApduTypes, p \in BOOLEAN} \cup
    {Ev("acse.ApplicationAssociationResponse", p, 0, 0, FALSE, r) :
        p \in BOOLEAN, r \in AssociationResult} \cup
    {Ev(t, p, i, 0, FALSE, 0) :
        t \in (RequestTypes \ {"xdlms.GetRequestNext"}) \cup (ResponseTypes \ GetResponseTypes),
        p \in BOOLEAN, i \in InvokeIds} \cup
    {Ev("xdlms.GetRequestNext", p, i, n, FALSE, 0) :
        p \in BOOLEAN, i \in InvokeIds, n \in BlockNumbers}

(***************************************************************************)
(* Operations                                                              *)
(***************************************************************************)
NewDlmsConnectionState ==
    dlmsState = NoAssociation

NewDlmsConnectionStateWithState(state) ==
    dlmsState = state

\* ProcessEvent on the session state machine, with the history the claims
\* refer to.
DoProcessEvent(event) ==
    LET r == transitionState(dlmsState, TypeOf(event))
        accepted == r.err = "nil"
    IN  /\ dlmsPrev' = dlmsState
        /\ dlmsEvent' = event
        /\ dlmsState' = r.state
        /\ dlmsErr' = r.err
        /\ lastBlockNumber' =
              IF accepted /\ event.type = "xdlms.GetResponseWithDataBlock"
              THEN event.blockNumber ELSE lastBlockNumber
        /\ requestInvokeId' =
              IF accepted /\ event.type \in RequestTypes
              THEN event.invokeId ELSE requestInvokeId
        /\ association' =
              IF ~accepted THEN association
              ELSE IF r.state = NoAssociation THEN "none"
              ELSE IF event.type = "acse.ApplicationAssociationRequest" THEN "requested"
              ELSE IF event.type = "acse.ApplicationAssociationResponse"
                      /\ association = "requested" THEN "established"
              ELSE association

ProcessEvent(event) ==
    /\ DoProcessEvent(event)
    /\ rxErr' = FALSE
    /\ UNCHANGED <<hdlcVars, codecVars>>

\* Inbound GET response: the factory parses the bytes; the caller hands the
\* object it got (a pointer), or the struct it points to, to ProcessEvent.
ReceiveGetResponse(sourceBytes, deref) ==
    LET parsed == GetResponseFromBytes(sourceBytes)
    IN  /\ rxErr' = parsed.err
        /\ IF parsed.err
           THEN UNCHANGED <<dlmsState, dlmsPrev, dlmsEvent, dlmsErr,
                            lastBlockNumber, requestInvokeId, association>>
           ELSE DoProcessEvent([parsed.apdu EXCEPT !.ptr = ~deref])
        /\ UNCHANGED <<hdlcVars, codecVars>>

\* The history of a machine in the state: none in NoAssociation, and in a
\* state a test puts the machine in with NewDlmsConnectionStateWithState the
\* history of the machines that get there from NoAssociation.
AssociationIn(state) ==
    IF state \in {NoAssociation, NeedData} THEN "none"
    ELSE IF state = AwaitingAssociationResponse THEN "requested"
    ELSE "established"

Init ==
    /\ NewHdlcConnectionState
    /\ \/ NewDlmsConnectionState
       \/ \E state \in State : NewDlmsConnectionStateWithState(state)
    /\ dlmsPrev = dlmsState
    /\ dlmsEvent = NoEvent
    /\ dlmsErr = "nil"
    /\ rxErr = FALSE
    /\ lastBlockNumber = -1
    /\ requestInvokeId = -1
    /\ association = AssociationIn(dlmsState)
    /\ op = "none"
    /\ arg = <<>>
    /\ ret = <<>>

SessionProcessEvent == \E event \in CallerEvents : ProcessEvent(event)

SessionReceive ==
    \E sourceBytes \in GetResponseWire, deref \in BOOLEAN :
        ReceiveGetResponse(sourceBytes, deref)

LinkProcessFrame == \E frame \in Frames : ProcessFrame(frame)

\* The two machines share no state: a behaviour drives one of them.
SessionUntouched == dlmsEvent = NoEvent /\ ~rxErr
LinkUntouched == hdlcFrame = NoFrame

Next ==
    \/ LinkUntouched /\ SessionProcessEvent
    \/ LinkUntouched /\ SessionReceive
    \/ SessionUntouched /\ LinkProcessFrame

Spec == Init /\ [][Next]_vars

\* The two machines as their constructors without arguments make them.
InitNew ==
    /\ Init
    /\ NewDlmsConnectionState

SpecNew == InitNew /\ [][Next]_vars

(***************************************************************************)
(* Codecs.  A codec call is a pure function of its input; what it gives    *)
(* back is a value, an error value or a panic.                              *)
(***************************************************************************)
\* st is "ok" (val is the value returned), "error" (a non-nil error was
\* returned) or "panic" (the call did not return).
Result(st, val) == [st |-> st, val |-> val]

\* a ^ b on uint16 (and so on bytes).
Xor(a, b) ==
    LET bit(i) == (((a \div 2^i) % 2) + ((b \div 2^i) % 2)) % 2
    IN  bit(0) + 2 * bit(1) + 4 * bit(2) + 8 * bit(3)
        + 16 * bit(4) + 32 * bit(5) + 64 * bit(6) + 128 * bit(7)
        + 256 * bit(8) + 512 * bit(9) + 1024 * bit(10) + 2048 * bit(11)
        + 4096 * bit(12) + 8192 * bit(13) + 16384 * bit(14) + 32768 * bit(15)

(***************************************************************************)
(* encoding.CRCCCITT                                                       *)
(***************************************************************************)
startingValue == 65535
crcCCITTConstant == 4129

\* The loop adds bit i of the byte at place 7 - i, for i = 0..6 only.
reverseByte_SevenBits(byteToReverse) ==
    LET bit(i) == (byteToReverse \div 2^i) % 2
    IN  bit(0) * 128 + bit(1) * 64 + bit(2) * 32 + bit(3) * 16
        + bit(4) * 8 + bit(5) * 4 + bit(6) * 2

reverseByte(byteToReverse) ==
    LET bit(i) == (byteToReverse \div 2^i) % 2
    IN  bit(0) * 128 + bit(1) * 64 + bit(2) * 32 + bit(3) * 16
        + bit(4) * 8 + bit(5) * 4 + bit(6) * 2 + bit(7)

\* initCRCTable: crcTable[i] after the eight steps on (crc, cVal), both uint16.
crcTable ==
    LET RECURSIVE step(_, _, _)
        step(crc, cVal, j) ==
            IF j = 8 THEN crc
            ELSE step(IF Xor(crc, cVal) \div 32768 = 1
                      THEN Xor((crc * 2) % 65536, crcCCITTConstant)
                      ELSE (crc * 2) % 65536,
                      (cVal * 2) % 65536,
                      j + 1)
    IN  [i \in 0..255 |-> step(0, i * 256, 0)]

\* calculate(crcValue, inputData): a function of the uint16 running value and
\* the bytes still to read.
calculate[crcValue \in 0..65535, inputData \in Seq(0..255)] ==
    IF inputData = <<>> THEN crcValue
    ELSE LET tmp == Xor((crcValue \div 256) % 256, Head(inputData))
             crcShifted == (crcValue * 256) % 65536
         IN  calculate[Xor(crcShifted, crcTable[tmp]), Tail(inputData)]

\* CalculateFor(inputData, false): most significant byte first.  For a
\* byte x, x ^ 0xFF is 255 - x.
CalculateFor(inputData) ==
    LET Bytes(reversedCRC) ==
            <<255 - reverseByte(reversedCRC \div 256),
              255 - reverseByte(reversedCRC % 256)>>
    IN  Bytes(calculate[startingValue,
                        [i \in 1..Len(inputData) |-> reverseByte(inputData[i])]])

(***************************************************************************)
(* hdlc.HdlcAddress.  An address is a record: logical, physical (-1: the   *)
(* nil pointer), type ("client" or "server") and extended.                 *)
(***************************************************************************)
\* The address is split without the shift that frees the end-of-address bit.
splitAddress_NoShift(address) ==
    IF address > 127
    THEN <<(address \div 128) % 128, address % 128>>
    ELSE <<0, address % 256>>

\* <<higher, lower>>
splitAddress(address) ==
    IF address > 127
    THEN <<((address \div 128) % 128) * 2, ((address % 128) * 2) % 256>>
    ELSE <<0, (address * 2) % 256>>

NewHdlcAddress(logicalAddress, physicalAddress, addressType, extendedAddressing) ==
    IF logicalAddress < 0 \/ logicalAddress > 127
    THEN Result("error", <<>>)
    ELSE IF physicalAddress # -1 /\ (physicalAddress < 0 \/ physicalAddress > 127)
    THEN Result("error", <<>>)
    ELSE IF addressType \notin {"client", "server"}
    THEN Result("error", <<>>)
    ELSE Result("ok", [logical |-> logicalAddress, physical |-> physicalAddress,
                       type |-> addressType, extended |-> extendedAddressing])

\* HdlcAddress.ToBytes; Length() is the length of what it returns.
HdlcAddressToBytes(a) ==
    LET EndMark(byte) == byte - (byte % 2) + 1      \* byte | 0b00000001
        logical == splitAddress(a.logical)
        physical == splitAddress(a.physical)
        out == IF a.type = "client"
               THEN <<EndMark((a.logical * 2) % 256)>>
               ELSE IF a.physical # -1
               THEN <<logical[1], logical[2], physical[1], EndMark(physical[2])>>
               ELSE <<logical[1], EndMark(logical[2])>>
    IN  SelectSeq(out, LAMBDA addr : addr # 0 \/ a.extended)

\* The two AddressData (logical, physical, length) found in a frame; byte i
\* of the Go slice is hdlcFrameBytes[i + 1] here.
FindAddressInFrameBytes(hdlcFrameBytes) ==
    LET n == Len(hdlcFrameBytes)
        At(i) == hdlcFrameBytes[i + 1]
        Ends(i) == i < n /\ At(i) % 2 = 1
        LengthFrom(start) ==
            IF Ends(start) THEN 1
            ELSE IF Ends(start + 1) THEN 2
            ELSE IF Ends(start + 3) THEN 4
            ELSE 1
        parseTwoByteAddress(i) == (At(i + 1) \div 2) + (At(i) \div 2) * 128
        Data(start, length) ==
            [logical |-> IF length = 4 THEN parseTwoByteAddress(start)
                         ELSE At(start) \div 2,
             physical |-> IF length = 1 THEN -1
                          ELSE IF length = 2 THEN At(start + 1) \div 2
                          ELSE parseTwoByteAddress(start + 2),
             length |-> length]
        destinationLength == LengthFrom(3)
        sourceStartPos == 3 + destinationLength
        sourceLength == LengthFrom(sourceStartPos)
    IN  IF n < 4 THEN Result("error", <<>>)
        ELSE IF n < 3 + destinationLength THEN Result("error", <<>>)
        ELSE IF n < sourceStartPos + sourceLength THEN Result("error", <<>>)
        ELSE Result("ok", [dest |-> Data(3, destinationLength),
                           src |-> Data(sourceStartPos, sourceLength)])

(***************************************************************************)
(* hdlc frames.  A frame is a record: kind ("SNRM", "UA", "RR", "I",       *)
(* "DISC"), the BaseHdlcFrame fields dest, src, payload, segmented, final, *)
(* and the sequence numbers ssn and rsn (uint8) of the I and RR frames.    *)
(* The frame types embed *BaseHdlcFrame: a method of BaseHdlcFrame calls   *)
(* the methods of BaseHdlcFrame, whatever the embedding type defines.      *)
(***************************************************************************)
HDLCFlag == 126
FixedLengthBytes == 7
LLCCommandHeader == <<230, 230, 0>>
LLCResponseHeader == <<231, 231, 0>>

NewFrame(kind, dest, src, payload, ssn, rsn, segmented, final) ==
    [kind |-> kind, dest |-> dest, src |-> src, payload |-> payload,
     ssn |-> ssn, rsn |-> rsn, segmented |-> segmented, final |-> final]

\* frame.GetControlField().ToBytes() through the frame type's own method.
\* The constructors of the RR and I control fields return a nil pointer with
\* their error, GetControlField drops the error, ToBytes reads a field of nil.
ControlFieldToBytes(f) ==
    CASE f.kind = "SNRM" -> Result("ok", <<147>>)
      [] f.kind = "UA" -> Result("ok", <<115>>)
      [] f.kind = "DISC" -> Result("ok", <<83>>)
      [] f.kind = "RR" ->
            IF f.rsn > 7 THEN Result("panic", <<>>)
            ELSE Result("ok", <<1 + f.rsn * 32 + 16>>)
      [] f.kind = "I" ->
            IF f.ssn > 7 \/ f.rsn > 7 THEN Result("panic", <<>>)
            ELSE Result("ok", <<f.ssn * 2 + f.rsn * 32
                                 + (IF f.final THEN 16 ELSE 0)>>)

\* frame.Information() through the frame type's own method.
Information(f) ==
    CASE f.kind \in {"SNRM", "RR", "DISC"} -> <<>>
      [] f.kind = "UA" -> f.payload
      [] f.kind = "I" ->
            IF Len(f.payload) = 0 THEN <<>> ELSE LLCCommandHeader \o f.payload

\* BaseHdlcFrame.GetControlField
BaseGetControlField == Result("panic", <<>>)

\* BaseHdlcFrame.HeaderContent, with BaseHdlcFrame.FrameLength and
\* DlmsHdlcFrameFormatField.ToBytes.
BaseHeaderContent(f) ==
    LET Content(destination, source, controlBytes) ==
            LET FrameLength == FixedLengthBytes + Len(destination)
                               + Len(source) + Len(f.payload)
                total == 40960 + (FrameLength % 65536)
                         + (IF f.segmented THEN 2048 ELSE 0)
            IN  IF controlBytes.st # "ok" THEN controlBytes
                ELSE Result("ok", <<(total \div 256) % 256, total % 256>>
                                  \o destination \o source \o controlBytes.val)
    IN  Content(HdlcAddressToBytes(f.dest), HdlcAddressToBytes(f.src),
                BaseGetControlField)

BaseHCS(f) ==
    LET Of(headerContent) ==
            IF headerContent.st # "ok" THEN headerContent
            ELSE IF Len(headerContent.val) = 0 THEN Result("ok", <<>>)
            ELSE Result("ok", CalculateFor(headerContent.val))
    IN  Of(BaseHeaderContent(f))

\* frame.HCS() through the frame type's own method; the I-frame has none of
\* its own.
HCS(f) ==
    IF f.kind \in {"SNRM", "RR", "DISC"} THEN Result("ok", <<>>)
    ELSE IF f.kind = "UA" /\ Len(f.payload) = 0 THEN Result("ok", <<>>)
    ELSE BaseHCS(f)

BaseFrameContent(f) ==
    LET Of(headerContent, hcs) ==
            IF headerContent.st # "ok" THEN headerContent
            ELSE IF hcs.st # "ok" THEN hcs
            ELSE Result("ok", headerContent.val \o hcs.val \o f.payload)
    IN  Of(BaseHeaderContent(f), BaseHCS(f))

\* frame.FCS(): no frame type has its own.
BaseFCS(f) ==
    LET Of(frameContent) ==
            IF frameContent.st # "ok" THEN frameContent
            ELSE Result("ok", CalculateFor(frameContent.val))
    IN  Of(BaseFrameContent(f))

\* frame.ToBytes(): no frame type has its own.
ToBytes(f) ==
    LET Of(frameContent, fcs) ==
            IF frameContent.st # "ok" THEN frameContent
            ELSE IF fcs.st # "ok" THEN fcs
            ELSE Result("ok", <<HDLCFlag>> \o frameContent.val \o fcs.val
                              \o <<HDLCFlag>>)
    IN  Of(BaseFrameContent(f), BaseFCS(f))

\* The FromBytes of the UA, RR, I and DISC frames.  frameBytes[a:b] of the
\* Go slice (capacity = length) is Slice(a, b) and panics unless
\* 0 <= a <= b <= len(frameBytes).
FrameFromBytes(kind, frameBytes) ==
    LET n == Len(frameBytes)
        At(i) == frameBytes[i + 1]
        Slice(a, b) == SubSeq(frameBytes, a + 1, b)
        InRange(a, b) == 0 <= a /\ a <= b /\ b <= n
        error == Result("error", <<>>)
        panic == Result("panic", <<>>)
        \* the HCS (where the frame type checks it), then the FCS
        Checked(frame, hcs, calculatedHCS, calculatedFCS) ==
            IF kind \in {"UA", "I"} /\ calculatedHCS.st # "ok" THEN calculatedHCS
            ELSE IF kind = "UA" /\ Len(calculatedHCS.val) > 0
                    /\ hcs # calculatedHCS.val
            THEN error
            ELSE IF kind = "I" /\ hcs # calculatedHCS.val THEN error
            ELSE IF calculatedFCS.st # "ok" THEN calculatedFCS
            ELSE IF Slice(n - 3, n - 1) # calculatedFCS.val THEN error
            ELSE Result("ok", frame)
        \* built is the frame the constructor gave, with the HCS bytes read
        Check(built) ==
            IF built.st # "ok" THEN built
            ELSE Checked(built.val.frame, built.val.hcs,
                         HCS(built.val.frame), BaseFCS(built.val.frame))
        StripLLC(information) ==
            IF Len(information) >= 3
               /\ SubSeq(information, 1, 3) \in {LLCCommandHeader, LLCResponseHeader}
            THEN SubSeq(information, 4, Len(information))
            ELSE information
        Built(frame, hcs) == Result("ok", [frame |-> frame, hcs |-> hcs])
        Body(destinationAddress, sourceAddress, controlBytePosition) ==
            LET value == At(controlBytePosition)
                hcsPosition == controlBytePosition + 1
            IN  CASE kind = "DISC" ->
                        Built(NewFrame("DISC", destinationAddress, sourceAddress,
                                       <<>>, 0, 0, FALSE, TRUE), <<>>)
                  [] kind = "RR" ->
                        IF ~InRange(controlBytePosition, controlBytePosition + 1)
                        THEN panic
                        ELSE IF value % 2 = 0 THEN error
                        ELSE Built(NewFrame("RR", destinationAddress, sourceAddress,
                                            <<>>, 0, value \div 32, FALSE, TRUE),
                                   <<>>)
                  [] kind = "I" ->
                        IF ~InRange(controlBytePosition, controlBytePosition + 1)
                        THEN panic
                        ELSE IF value % 2 = 1 THEN error
                        ELSE IF ~InRange(hcsPosition, hcsPosition + 2) THEN panic
                        ELSE IF ~InRange(hcsPosition + 2, n - 3) THEN panic
                        ELSE Built(NewFrame("I", destinationAddress, sourceAddress,
                                            StripLLC(Slice(hcsPosition + 2, n - 3)),
                                            (value \div 2) % 8, value \div 32,
                                            (At(1) \div 8) % 2 = 1,
                                            (value \div 16) % 2 = 1),
                                   Slice(hcsPosition, hcsPosition + 2))
                  [] kind = "UA" ->
                        IF ~InRange(hcsPosition, hcsPosition + 2) THEN panic
                        ELSE IF ~InRange(hcsPosition + 2, n - 3) THEN panic
                        ELSE Built(NewFrame("UA", destinationAddress, sourceAddress,
                                            Slice(hcsPosition + 2, n - 3),
                                            0, 0, FALSE, TRUE),
                                   Slice(hcsPosition, hcsPosition + 2))
        Addressed(destinationAddress, sourceAddress) ==
            IF destinationAddress.st # "ok" THEN error
            ELSE IF sourceAddress.st # "ok" THEN error
            ELSE Check(Body(destinationAddress.val, sourceAddress.val,
                      3 + Len(HdlcAddressToBytes(destinationAddress.val))
                        + Len(HdlcAddressToBytes(sourceAddress.val))))
        Found(found) ==
            IF found.st # "ok" THEN error
            ELSE Addressed(
                    NewHdlcAddress(found.val.dest.logical, found.val.dest.physical,
                                   IF kind = "DISC" THEN "server" ELSE "client",
                                   FALSE),
                    NewHdlcAddress(found.val.src.logical, found.val.src.physical,
                                   IF kind = "DISC" THEN "client" ELSE "server",
                                   found.val.src.length = 4))
    IN  IF ~(n >= 2 /\ At(0) = HDLCFlag /\ At(n - 1) = HDLCFlag) THEN error
        ELSE IF ~(n >= 3 /\ At(1) \div 16 = 10) THEN error
        ELSE IF ((At(1) * 256 + At(2)) % 2048) + 2 # n THEN error
        ELSE Found(FindAddressInFrameBytes(frameBytes))

(***************************************************************************)
(* encoding.BER and the ACSE release APDUs.  A release APDU is a record:   *)
(* apdu ("RLRQ" or "RLRE") and reason (-1: the nil pointer); its           *)
(* user-information is nil.                                                *)
(***************************************************************************)
RLRQTag == 98
RLRETag == 99

BerEncode(tagBytes, data) ==
    IF Len(data) = 0 THEN <<>>
    ELSE tagBytes \o <<Len(data) % 256>> \o data

\* The bytes after the length byte may be more than it says.
BerDecode_Prefix(data, tagLength) ==
    LET input == Drop(data, tagLength + 1)
    IN  IF Len(data) < tagLength + 1 THEN Result("error", <<>>)
        ELSE IF Len(input) < data[tagLength + 1] THEN Result("error", <<>>)
        ELSE Result("ok", [tag |-> SubSeq(data, 1, tagLength),
                           length |-> data[tagLength + 1],
                           data |-> input])

BerDecode(data, tagLength) ==
    LET input == Drop(data, tagLength + 1)
    IN  IF Len(data) < tagLength + 1 THEN Result("error", <<>>)
        ELSE IF Len(input) # data[tagLength + 1] THEN Result("error", <<>>)
        ELSE Result("ok", [tag |-> SubSeq(data, 1, tagLength),
                           length |-> data[tagLength + 1],
                           data |-> input])

\* ReleaseRequest.ToBytes and ReleaseResponse.ToBytes
ReleaseToBytes(x) ==
    LET reasonBytes ==
            IF x.reason = -1 THEN <<>>
            ELSE IF x.apdu = "RLRQ" THEN BerEncode(<<128>>, <<x.reason>>)
            ELSE BerEncode(<<128>>, BerEncode(<<2>>, <<x.reason>>))
    IN  BerEncode(<<IF x.apdu = "RLRQ" THEN RLRQTag ELSE RLRETag>>, reasonBytes)

\* ReleaseRequest.FromBytes and ReleaseResponse.FromBytes.  A
\* user-information object (tag 0xBE) is given to the FromBytes of a
\* UserInformation whose Tag is nil, which no decoded tag equals.
ReleaseFromBytes(apdu, sourceBytes) ==
    LET error == Result("error", <<>>)
        RECURSIVE objects(_, _)
        objects(data, reason) ==
            IF Len(data) = 0 THEN Result("ok", [apdu |-> apdu, reason |-> reason])
            ELSE IF Len(data) < 2 THEN error
            ELSE IF Len(data) - 2 < data[2] THEN error
            ELSE LET objectData == SubSeq(data, 3, 2 + data[2])
                     rest == Drop(data, 2 + data[2])
                     decoded == BerDecode(objectData, 1)
                 IN  IF data[1] = 128
                     THEN IF Len(objectData) = 0 THEN objects(rest, -1)
                          ELSE IF decoded.st # "ok" THEN error
                          ELSE IF decoded.val.tag # <<2>> THEN error
                          ELSE IF Len(decoded.val.data) = 0 THEN error
                          ELSE objects(rest, decoded.val.data[1])
                     ELSE error
    IN  IF Len(sourceBytes) = 0 THEN error
        ELSE IF sourceBytes[1] # (IF apdu = "RLRQ" THEN RLRQTag ELSE RLRETag)
        THEN error
        ELSE IF Len(sourceBytes) < 2 THEN error
        ELSE IF Len(sourceBytes) - 2 # sourceBytes[2] THEN error
        ELSE objects(Drop(sourceBytes, 2), -1)

(***************************************************************************)
(* xdlms.InvokeIdAndPriority, the normal ActionResponse APDUs and          *)
(* xdlms.ExceptionResponse                                                 *)
(***************************************************************************)
ActionResponseTag == 199
ActionTypeNormal == 1
ExceptionResponseTag == 216
ServiceExceptionInvocationCounterError == 6

\* NewInvokeIdAndPriority: invokeID is a uint8.
NewInvokeIdAndPriority(invokeID, confirmed, highPriority) ==
    IF invokeID > 15 THEN Result("error", <<>>)
    ELSE Result("ok", [invokeId |-> invokeID, confirmed |-> confirmed,
                       highPriority |-> highPriority])

\* The confirmed flag is put in bit 7 and the priority flag in bit 6.
InvokeIdAndPriorityToBytes_Swapped(i) ==
    LET Or(out, bit) == IF (out \div bit) % 2 = 1 THEN out ELSE out + bit
        Confirmed(out) == IF i.confirmed THEN Or(out, 128) ELSE out
        HighPriority(out) == IF i.highPriority THEN Or(out, 64) ELSE out
    IN  <<HighPriority(Confirmed(i.invokeId))>>

InvokeIdAndPriorityToBytes(i) ==
    LET Or(out, bit) == IF (out \div bit) % 2 = 1 THEN out ELSE out + bit
        Confirmed(out) == IF i.confirmed THEN Or(out, 64) ELSE out
        HighPriority(out) == IF i.highPriority THEN Or(out, 128) ELSE out
    IN  <<HighPriority(Confirmed(i.invokeId))>>

InvokeIdAndPriorityFromBytes(val) ==
    [invokeId |-> val % 16, confirmed |-> (val \div 64) % 2 = 1,
     highPriority |-> val \div 128 = 1]

\* An ActionResponseNormalWithData is a record: status, data and
\* invokeIdAndPriority.
ActionResponseNormalWithDataToBytes(a) ==
    <<ActionResponseTag, ActionTypeNormal>>
        \o InvokeIdAndPriorityToBytes(a.invokeIdAndPriority)
        \o <<a.status, 1>> \o a.data

\* The FromBytes of ActionResponseNormal ("Normal"), of
\* ActionResponseNormalWithData ("WithData") and of
\* ActionResponseNormalWithError ("WithError").
ActionResponseNormalFromBytes(variant, data) ==
    LET error == Result("error", <<>>)
        invokeIdAndPriority == InvokeIdAndPriorityFromBytes(data[3])
        status == data[4]
        hasData == data[5] # 0
    IN  IF Len(data) < 2 THEN error
        ELSE IF data[1] # ActionResponseTag THEN error
        ELSE IF data[2] # ActionTypeNormal THEN error
        ELSE IF Len(data) < 3 THEN error
        ELSE IF Len(data) < 4 THEN error
        ELSE IF Len(data) < 5 THEN error
        ELSE CASE variant = "Normal" ->
                    IF hasData THEN error
                    ELSE Result("ok", [apdu |-> "ActionResponseNormal",
                                       status |-> status,
                                       invokeIdAndPriority |-> invokeIdAndPriority])
               [] variant = "WithData" ->
                    IF ~hasData THEN error
                    ELSE Result("ok", [apdu |-> "ActionResponseNormalWithData",
                                       status |-> status,
                                       data |-> Drop(data, 5),
                                       invokeIdAndPriority |-> invokeIdAndPriority])
               [] variant = "WithError" ->
                    IF ~hasData THEN error
                    ELSE IF Len(data) < 6 THEN error
                    ELSE IF data[6] # 1 THEN error
                    ELSE IF Len(data) < 7 THEN error
                    ELSE Result("ok", [apdu |-> "ActionResponseNormalWithError",
                                       status |-> status,
                                       error |-> data[7],
                                       invokeIdAndPriority |-> invokeIdAndPriority])

\* What XDlmsApduFactory.APDUFromBytes does with an APDU of tag 199.
ActionResponseFromBytes(sourceBytes) ==
    IF Len(sourceBytes) < 4 THEN Result("error", <<>>)
    ELSE IF sourceBytes[1] # 199 THEN Result("error", <<>>)
    ELSE IF sourceBytes[2] # 1 THEN Result("error", <<>>)
    ELSE IF Len(sourceBytes) >= 6 /\ sourceBytes[5] # 0 /\ sourceBytes[6] = 0
    THEN ActionResponseNormalFromBytes("WithData", sourceBytes)
    ELSE IF Len(sourceBytes) >= 6 /\ sourceBytes[5] # 0 /\ sourceBytes[6] = 1
    THEN ActionResponseNormalFromBytes("WithError", sourceBytes)
    ELSE ActionResponseNormalFromBytes("Normal", sourceBytes)

\* An ExceptionResponse is a record: stateError, serviceError and
\* invocationCounterData (-1: the nil pointer).
ExceptionResponseToBytes(e) ==
    <<ExceptionResponseTag, e.stateError, e.serviceError>>
        \o (IF e.invocationCounterData # -1
            THEN <<(e.invocationCounterData \div 16777216) % 256,
                   (e.invocationCounterData \div 65536) % 256,
                   (e.invocationCounterData \div 256) % 256,
                   e.invocationCounterData % 256>>
            ELSE <<>>)

ExceptionResponseFromBytes(sourceBytes) ==
    LET data == Drop(sourceBytes, 3)
    IN  IF Len(sourceBytes) < 3 THEN Result("error", <<>>)
        ELSE IF sourceBytes[1] # ExceptionResponseTag THEN Result("error", <<>>)
        ELSE IF sourceBytes[3] # ServiceExceptionInvocationCounterError
        THEN Result("ok", [stateError |-> sourceBytes[2],
                           serviceError |-> sourceBytes[3],
                           invocationCounterData |-> -1])
        ELSE IF Len(data) < 4 THEN Result("error", <<>>)
        ELSE Result("ok", [stateError |-> sourceBytes[2],
                           serviceError |-> sourceBytes[3],
                           invocationCounterData |-> BigEndianUint32(data)])


(***************************************************************************)
(* xdlms.XDlmsApduFactory.  APDUFromBytes hands the bytes to one parser and *)
(* returns what it returns: the model yields Result("ok", p) with p the    *)
(* parser the bytes are handed to, or Result("error", e) when the factory  *)
(* itself returns the error e.                                             *)
(***************************************************************************)
APDUFromBytes(apduBytes) ==
    LET Type(n) == IF Len(apduBytes) < 2 THEN Result("error", "insufficient data")
                   ELSE Result("ok", n)
        NormalOnly(n) ==
            IF Len(apduBytes) < 2 THEN Result("error", "insufficient data")
            ELSE IF apduBytes[2] = 1 THEN Result("ok", n)
            ELSE Result("error", "not valid type")
        GetRequest ==
            IF Len(apduBytes) < 2 THEN Result("error", "insufficient data")
            ELSE CASE apduBytes[2] = 1 -> Result("ok", "GetRequestNormal")
                   [] apduBytes[2] = 2 -> Result("ok", "GetRequestNext")
                   [] apduBytes[2] = 3 -> Result("ok", "GetRequestWithList")
                   [] OTHER -> Result("error", "not valid type")
        GetResponse ==
            IF Len(apduBytes) < 2 THEN Result("error", "insufficient data")
            ELSE CASE apduBytes[2] = 1 ->
                        IF Len(apduBytes) >= 4 /\ apduBytes[4] = 1
                        THEN Result("ok", "GetResponseNormalWithError")
                        ELSE Result("ok", "GetResponseNormal")
                   [] apduBytes[2] = 2 -> Result("ok", "GetResponseWithDataBlock")
                   [] apduBytes[2] = 3 -> Result("ok", "GetResponseWithList")
                   [] apduBytes[2] = 4 -> Result("ok", "GetResponseLastBlock")
                   [] apduBytes[2] = 5 -> Result("ok", "GetResponseLastBlockWithError")
                   [] OTHER -> Result("error", "not valid type")
        ActionResponse ==
            IF Len(apduBytes) < 4 THEN Result("error", "insufficient data")
            ELSE IF apduBytes[2] # 1 THEN Result("error", "not valid type")
            ELSE IF Len(apduBytes) >= 6 /\ apduBytes[5] # 0 /\ apduBytes[6] = 0
            THEN Result("ok", "ActionResponseNormalWithData")
            ELSE IF Len(apduBytes) >= 6 /\ apduBytes[5] # 0 /\ apduBytes[6] = 1
            THEN Result("ok", "ActionResponseNormalWithError")
            ELSE Result("ok", "ActionResponseNormal")
        tag == apduBytes[1]
    IN  IF Len(apduBytes) = 0 THEN Result("error", "insufficient data")
        ELSE CASE tag = 1 -> Result("ok", "InitiateRequest")
               [] tag = 8 -> Result("ok", "InitiateResponse")
               [] tag = 14 -> Result("error", "not yet implemented")
               [] tag = 15 -> Result("ok", "DataNotification")
               [] tag = 33 -> Result("error", "not yet implemented")
               [] tag = 40 -> Result("error", "not yet implemented")
               [] tag = 216 -> Result("ok", "ExceptionResponse")
               [] tag = 219 -> Result("error", "not yet implemented")
               [] tag = 96 -> Result("ok", "ApplicationAssociationRequest")
               [] tag = 97 -> Result("ok", "ApplicationAssociationResponse")
               [] tag = 98 -> Result("ok", "ReleaseRequest")
               [] tag = 99 -> Result("ok", "ReleaseResponse")
               [] tag = 192 -> GetRequest
               [] tag = 196 -> GetResponse
               [] tag = 193 -> NormalOnly("SetRequestNormal")
               [] tag = 197 -> NormalOnly("SetResponseNormal")
               [] tag = 195 -> NormalOnly("ActionRequestNormal")
               [] tag = 199 -> ActionResponse
               [] OTHER -> Result("error", "tag is not available")


(***************************************************************************)
(* cosem.Obis and cosem.CosemAttribute.  An Obis is the tuple              *)
(* <<A, B, C, D, E, F>> of ints; a CosemAttribute is a record: interface   *)
(* (enumerations.CosemInterface, a uint8), instance and attribute.         *)
(***************************************************************************)
NewObis(a, b, c, d, e, f) ==
    IF \A value \in {a, b, c, d, e, f} : ~(value < 0 \/ value > 255)
    THEN Result("ok", <<a, b, c, d, e, f>>)
    ELSE Result("error", <<>>)

ObisFromBytes(sourceBytes) ==
    IF Len(sourceBytes) # 6 THEN Result("error", <<>>)
    ELSE NewObis(sourceBytes[1], sourceBytes[2], sourceBytes[3],
                 sourceBytes[4], sourceBytes[5], sourceBytes[6])

ObisToBytes(o) == [i \in 1..6 |-> o[i] % 256]

CosemAttributeLength == 9

CosemAttributeFromBytes(sourceBytes) ==
    LET Of(instance) ==
            IF instance.st # "ok" THEN Result("error", <<>>)
            ELSE Result("ok", [interface |-> (sourceBytes[1] * 256 + sourceBytes[2]) % 256,
                               instance |-> instance.val,
                               attribute |-> sourceBytes[9]])
    IN  IF Len(sourceBytes) # CosemAttributeLength THEN Result("error", <<>>)
        ELSE Of(ObisFromBytes(SubSeq(sourceBytes, 3, 8)))

\* The interface class is written least significant byte first.
CosemAttributeToBytes_LittleEndian(c) ==
    <<c.interface % 256, (c.interface \div 256) % 256>>
        \o ObisToBytes(c.instance) \o <<c.attribute>>

CosemAttributeToBytes(c) ==
    <<(c.interface \div 256) % 256, c.interface % 256>>
        \o ObisToBytes(c.instance) \o <<c.attribute>>

(***************************************************************************)
(* xdlms.GetRequestNormal: a record of cosemAttribute, invokeIdAndPriority *)
(* and accessSelection ("nil", or "descriptor" for a range or entry        *)
(* descriptor, whose own coding is left out).                              *)
(***************************************************************************)
GetRequestTag == 192
GetRequestTypeNormal == 1

GetRequestNormalFromBytes(data) ==
    LET error == Result("error", <<>>)
        rest == Drop(data, 12)
        Of(cosemAttribute) ==
            IF cosemAttribute.st # "ok" THEN error
            ELSE IF Len(rest) > 0 /\ rest[1] # 0
                    /\ (Len(rest) < 2 \/ rest[2] \notin {1, 2})
            THEN error
            ELSE Result("ok", [cosemAttribute |-> cosemAttribute.val,
                               invokeIdAndPriority |-> InvokeIdAndPriorityFromBytes(data[3]),
                               accessSelection |-> IF Len(rest) > 0 /\ rest[1] # 0
                                                   THEN "descriptor" ELSE "nil"])
    IN  IF Len(data) < 2 THEN error
        ELSE IF data[1] # GetRequestTag THEN error
        ELSE IF data[2] # GetRequestTypeNormal THEN error
        ELSE IF Len(data) < 3 THEN error
        ELSE IF Len(data) < 12 THEN error
        ELSE Of(CosemAttributeFromBytes(SubSeq(data, 4, 12)))

GetRequestNormalToBytes(g) ==
    <<GetRequestTag, GetRequestTypeNormal>>
        \o InvokeIdAndPriorityToBytes(g.invokeIdAndPriority)
        \o CosemAttributeToBytes(g.cosemAttribute)
        \o (IF g.accessSelection # "nil" THEN <<1>> ELSE <<0>>)


(***************************************************************************)
(* dlmsdata: the DLMS data types and encoding.AXdrDecoder.  A DlmsData is  *)
(* a record: type (the Go type), value (the number; 1 and 0 for a          *)
(* boolean), bytes (of a string) and items (of an array or structure).     *)
(* What ToPython yields has the same fields, with the Go type of the value *)
(* as its type.                                                            *)
(***************************************************************************)
VariableLength == -1

Data(type, value, bytes, items) ==
    [type |-> type, value |-> value, bytes |-> bytes, items |-> items]

\* The Tag and Length the constructors set.
GetTag(type) ==
    CASE type = "NullData" -> 0
      [] type = "DataArray" -> 1
      [] type = "DataStructure" -> 2
      [] type = "BooleanData" -> 3
      [] type = "DoubleLongData" -> 5
      [] type = "DoubleLongUnsignedData" -> 6
      [] type = "OctetStringData" -> 9
      [] type = "VisibleStringData" -> 10
      [] type = "IntegerData" -> 15
      [] type = "LongData" -> 16
      [] type = "UnsignedIntegerData" -> 17
      [] type = "UnsignedLongData" -> 18

GetLength(type) ==
    CASE type = "NullData" -> 0
      [] type \in {"BooleanData", "IntegerData", "UnsignedIntegerData"} -> 1
      [] type \in {"LongData", "UnsignedLongData"} -> 2
      [] type \in {"DoubleLongData", "DoubleLongUnsignedData"} -> 4
      [] OTHER -> VariableLength

DlmsDataTypes ==
    {"NullData", "DataArray", "DataStructure", "BooleanData", "DoubleLongData",
     "DoubleLongUnsignedData", "OctetStringData", "VisibleStringData",
     "IntegerData", "LongData", "UnsignedIntegerData", "UnsignedLongData"}

ToPython(d) ==
    LET RECURSIVE Of(_)
        Of(x) ==
            CASE x.type = "NullData" -> Data("nil", 0, <<>>, <<>>)
              [] x.type = "BooleanData" -> Data("bool", x.value, <<>>, <<>>)
              [] x.type = "IntegerData" -> Data("int8", x.value, <<>>, <<>>)
              [] x.type = "UnsignedIntegerData" -> Data("uint8", x.value, <<>>, <<>>)
              [] x.type = "LongData" -> Data("int16", x.value, <<>>, <<>>)
              [] x.type = "UnsignedLongData" -> Data("uint16", x.value, <<>>, <<>>)
              [] x.type = "DoubleLongData" -> Data("int32", x.value, <<>>, <<>>)
              [] x.type = "DoubleLongUnsignedData" -> Data("uint32", x.value, <<>>, <<>>)
              [] x.type = "OctetStringData" -> Data("[]byte", 0, x.bytes, <<>>)
              [] x.type = "VisibleStringData" -> Data("string", 0, x.bytes, <<>>)
              [] OTHER -> Data("[]interface{}", 0, <<>>,
                               [i \in 1..Len(x.items) |-> Of(x.items[i])])
    IN  Of(d)

EncodeVariableInteger(length) ==
    IF length <= 127 THEN <<length>>
    ELSE IF length <= 255 THEN <<129, length>>
    ELSE IF length <= 65535 THEN <<130, length \div 256, length % 256>>
    ELSE <<131, length \div 65536, (length \div 256) % 256, length % 256>>

\* ToBytes of a scalar other than null is the promoted BaseDlmsData.ToBytes,
\* whose call b.ValueToBytes() is BaseDlmsData.ValueToBytes: an error.
BaseValueToBytes == Result("error", <<>>)

DlmsDataToBytes(d) ==
    LET RECURSIVE Flat(_)
        Flat(s) == IF s = <<>> THEN <<>> ELSE Head(s) \o Flat(Tail(s))
        Base(x, valueBytes) ==
            IF valueBytes.st # "ok" THEN Result("error", <<>>)
            ELSE Result("ok", <<GetTag(x.type)>>
                                \o (IF GetLength(x.type) = VariableLength
                                    THEN <<Len(valueBytes.val) % 256>> ELSE <<>>)
                                \o valueBytes.val)
        RECURSIVE Of(_)
        Items(x, itemBytes) ==
            IF \E i \in 1..Len(itemBytes) : itemBytes[i].st # "ok"
            THEN Result("error", <<>>)
            ELSE Result("ok", <<GetTag(x.type)>> \o EncodeVariableInteger(Len(x.items))
                                \o Flat([i \in 1..Len(itemBytes) |-> itemBytes[i].val]))
        Of(x) ==
            CASE x.type = "NullData" -> Result("ok", <<0>>)
              [] x.type \in {"DataArray", "DataStructure"} ->
                    Items(x, [i \in 1..Len(x.items) |-> Of(x.items[i])])
              [] OTHER -> Base(x, BaseValueToBytes)
    IN  Of(d)

GetAXdrLength(data) ==
    LET numberOfBytes == data[1] % 128
    IN  IF Len(data) = 0 THEN Result("error", 0)
        ELSE IF data[1] < 128 THEN Result("ok", data[1])
        ELSE IF Len(data) < numberOfBytes + 1 THEN Result("error", 0)
        ELSE Result("ok", CASE numberOfBytes = 0 -> 0
                            [] numberOfBytes = 1 -> data[2]
                            [] numberOfBytes = 2 -> data[2] * 256 + data[3]
                            [] OTHER -> (data[numberOfBytes - 1] * 65536
                                         + data[numberOfBytes] * 256
                                         + data[numberOfBytes + 1]))

\* What the decoder returns while it reads: st, the value read and the
\* pointer after it.
Decoded(st, val, pointer) == [st |-> st, val |-> val, pointer |-> pointer]

\* DecodeData on an instance of the type, and the same steps in
\* DecodeSequence: the FromBytes of the type on the bytes taken.
DecodeData(buffer, pointer, type) ==
    LET error == Decoded("error", <<>>, pointer)
        Signed(n, bits) == IF n >= 2^(bits - 1) THEN n - 2^bits ELSE n
        FromBytes(data) ==
            CASE type = "NullData" -> Data("nil", 0, <<>>, <<>>)
              [] type = "BooleanData" -> Data("bool", IF data[1] # 0 THEN 1 ELSE 0, <<>>, <<>>)
              [] type = "IntegerData" -> Data("int8", Signed(data[1], 8), <<>>, <<>>)
              [] type = "UnsignedIntegerData" -> Data("uint8", data[1], <<>>, <<>>)
              [] type = "LongData" ->
                    Data("int16", Signed(data[1] * 256 + data[2], 16), <<>>, <<>>)
              [] type = "UnsignedLongData" ->
                    Data("uint16", data[1] * 256 + data[2], <<>>, <<>>)
              [] type = "DoubleLongData" ->
                    Data("int32", Signed(data[1], 8) * 16777216 + data[2] * 65536
                                  + data[3] * 256 + data[4], <<>>, <<>>)
              [] type = "DoubleLongUnsignedData" ->
                    Data("uint32", BigEndianUint32(data), <<>>, <<>>)
              [] type = "OctetStringData" -> Data("[]byte", 0, data, <<>>)
              [] type = "VisibleStringData" -> Data("string", 0, data, <<>>)
        GetBytes(length) ==
            IF pointer + length > Len(buffer) THEN error
            ELSE Decoded("ok", FromBytes(SubSeq(buffer, pointer + 1, pointer + length)),
                         pointer + length)
        Variable(length) ==
            IF length.st # "ok" THEN error ELSE GetBytes(length.val)
    IN  IF GetLength(type) = VariableLength
        THEN Variable(GetAXdrLength(Drop(buffer, pointer)))
        ELSE GetBytes(GetLength(type))

\* DecodeSequenceOf, with DecodeArray and DecodeStructure (the same code):
\* the item count is read with the package function GetAXdrLength, which
\* leaves the pointer where it is.
DecodeSequenceOf[buffer \in Seq(0..255), pointer \in Nat] ==
    LET error == Decoded("error", <<>>, pointer)
        RECURSIVE Elements(_, _, _)
        Elements(n, elements, p) ==
            IF n = 0 THEN Decoded("ok", Data("[]interface{}", 0, <<>>, elements), p)
            ELSE LET Next1(element) ==
                        IF element.st # "ok" THEN Decoded("error", <<>>, p)
                        ELSE Elements(n - 1, Append(elements, element.val), element.pointer)
                 IN  Next1(DecodeSequenceOf[buffer, p])
        DecodeArray(itemCount) ==
            IF itemCount.st # "ok" THEN error
            ELSE Elements(itemCount.val, <<>>, pointer + 1)
        Class(tag) ==
            IF \A t \in DlmsDataTypes : GetTag(t) # tag THEN error
            ELSE IF tag \in {1, 2}
            THEN DecodeArray(GetAXdrLength(Drop(buffer, pointer + 1)))
            ELSE DecodeData(buffer, pointer + 1,
                            CHOOSE t \in DlmsDataTypes : GetTag(t) = tag)
    IN  IF pointer + 1 > Len(buffer) THEN error
        ELSE Class(buffer[pointer + 1])

\* AXdrDecoder.Decode of the bytes with one Sequence element.
DecodeSequence(buffer) ==
    LET RECURSIVE Loop(_, _)
        Loop(parsedData, pointer) ==
            IF pointer >= Len(buffer)
            THEN IF Len(parsedData) = 1 THEN Result("ok", parsedData[1])
                 ELSE Result("ok", Data("[]interface{}", 0, <<>>, parsedData))
            ELSE LET Next1(element) ==
                        IF element.st # "ok" THEN Result("error", <<>>)
                        ELSE Loop(Append(parsedData, element.val), element.pointer)
                 IN  Next1(DecodeSequenceOf[buffer, pointer])
    IN  Loop(<<>>, 0)


(***************************************************************************)
(* xdlms.Conformance, modelled as the set of its flags that are true.      *)
(***************************************************************************)
ConformanceBitPosition ==
    [general_protection |-> 22, general_block_transfer |-> 21,
     delta_value_encoding |-> 17, attribute_0_supported_with_set |-> 15,
     priority_management_supported |-> 14, attribute_0_supported_with_get |-> 13,
     block_transfer_with_get_or_read |-> 12, block_transfer_with_set_or_write |-> 11,
     block_transfer_with_action |-> 10, multiple_references |-> 9,
     data_notification |-> 7, access |-> 6, get |-> 4, set |-> 3,
     selective_access |-> 2, event_notification |-> 1, action |-> 0]

ConformanceFromBytes(data) ==
    LET Of(integerRepresentation) ==
            {flag \in DOMAIN ConformanceBitPosition :
                (integerRepresentation \div 2^ConformanceBitPosition[flag]) % 2 = 1}
    IN  IF Len(data) < 4 THEN Result("error", {})
        ELSE Result("ok", Of(data[2] * 65536 + data[3] * 256 + data[4]))

\* result is four bytes, and binary.BigEndian.PutUint32 is given result[1:],
\* three bytes: it needs four and panics otherwise.
ConformanceToBytes(c) ==
    LET RECURSIVE Or(_)
        Or(flags) ==
            IF flags = {} THEN 0
            ELSE LET flag == CHOOSE f \in flags : TRUE
                 IN  2^ConformanceBitPosition[flag] + Or(flags \ {flag})
        PutUint32(result, at, v) ==
            IF Len(result) - at < 4 THEN Result("panic", <<>>)
            ELSE Result("ok", [i \in 1..Len(result) |->
                                 IF i <= at THEN result[i]
                                 ELSE IF i > at + 4 THEN result[i]
                                 ELSE (v \div 256^(at + 4 - i)) % 256])
    IN  PutUint32(<<0, 0, 0, 0>>, 1, Or(c))


(***************************************************************************)
(* cosem.FromString and Obis.ToString.  A string is a sequence of          *)
(* one-character strings.                                                  *)
(***************************************************************************)
Digits == <<"0", "1", "2", "3", "4", "5", "6", "7", "8", "9">>

\* fmt.Sprintf of the verbs %d joined by the given separators.
Sprintf(values, separators) ==
    LET Itoa[n \in Nat] ==
            IF n < 10 THEN <<Digits[n + 1]>>
            ELSE Itoa[n \div 10] \o <<Digits[(n % 10) + 1]>>
        Join[i \in 1..Len(values)] ==
            IF i = 1 THEN Itoa[values[1]]
            ELSE Join[i - 1] \o <<separators[i - 1]>> \o Itoa[values[i]]
    IN  Join[Len(values)]

ObisToString(o, separator) ==
    IF separator # ""
    THEN Sprintf(o, [i \in 1..5 |-> separator])
    ELSE Sprintf(o, <<"-", ":", ".", ".", ".">>)

\* sixPartRegex and fivePartRegex match one to three digits per part, the
\* parts separated by dots, over the whole string.
ObisFromString(obisString) ==
    LET Split[i \in 0..Len(obisString)] ==
            IF i = 0 THEN << <<>> >>
            ELSE IF obisString[i] = "." THEN Append(Split[i - 1], <<>>)
            ELSE [Split[i - 1] EXCEPT ![Len(Split[i - 1])] = Append(@, obisString[i])]
        IsDigits(part) ==
            /\ Len(part) \in 1..3
            /\ \A i \in 1..Len(part) : \E d \in 1..10 : Digits[d] = part[i]
        Atoi(part) ==
            LET Value[i \in 0..Len(part)] ==
                    IF i = 0 THEN 0
                    ELSE Value[i - 1] * 10
                         + ((CHOOSE d \in 1..10 : Digits[d] = part[i]) - 1)
            IN  Value[Len(part)]
        Match(parts) ==
            IF \E i \in 1..Len(parts) : ~IsDigits(parts[i])
            THEN Result("error", <<>>)
            ELSE IF Len(parts) = 6
            THEN NewObis(Atoi(parts[1]), Atoi(parts[2]), Atoi(parts[3]),
                         Atoi(parts[4]), Atoi(parts[5]), Atoi(parts[6]))
            ELSE IF Len(parts) = 5
            THEN NewObis(Atoi(parts[1]), Atoi(parts[2]), Atoi(parts[3]),
                         Atoi(parts[4]), Atoi(parts[5]), 255)
            ELSE Result("error", <<>>)
    IN  Match(Split[Len(obisString)])


(***************************************************************************)
(* acse: the association APDUs AARQ and AARE.  An optional field (a nil    *)
(* pointer or nil slice in the code) is a sequence: <<>> when nil, <<v>>   *)
(* when set; the authentication mechanism is -1 when its pointer is nil.   *)
(***************************************************************************)
AARQTag == 96
AARETag == 97
AuthenticationMechanismNone == 0

\* DLMSObjectIdentifier.Prefix
DLMSObjectIdentifierPrefix == <<96, 133, 116, 5, 8>>

aarqShouldSetAuthenticated(mechanism) ==
    IF mechanism = -1 THEN FALSE
    ELSE IF mechanism = AuthenticationMechanismNone THEN FALSE
    ELSE TRUE

\* SenderACSERequirements and ResponderACSERequirements: the
\* AuthFunctionalUnit's Authentication, or nil.
ACSERequirements(a) ==
    IF aarqShouldSetAuthenticated(a.authentication) THEN <<TRUE>> ELSE <<>>

\* The mechanism name is given whenever the mechanism pointer is set.
MechanismName_WhenSet(a) ==
    IF a.authentication # -1 THEN <<a.authentication>> ELSE <<>>

\* ApplicationAssociationRequest.MechanismName and
\* ApplicationAssociationResponse.MechanismName
MechanismName(a) ==
    IF ACSERequirements(a) # <<>> /\ a.authentication # -1
    THEN <<a.authentication>> ELSE <<>>

\* AppContextName.ToBytes, with ContextID
AppContextNameToBytes(logicalNameRefs, cipheredAPDUs) ==
    LET ContextID == IF logicalNameRefs /\ ~cipheredAPDUs THEN 1
                     ELSE IF ~logicalNameRefs /\ ~cipheredAPDUs THEN 2
                     ELSE IF logicalNameRefs /\ cipheredAPDUs THEN 3
                     ELSE 4
    IN  BerEncode(<<6>>, DLMSObjectIdentifierPrefix \o <<1, ContextID>>)

\* AppContextName.FromBytes, with getSettingsByContextID
AppContextNameFromBytes(data) ==
    LET error == Result("error", <<>>)
        Of(berData) ==
            IF Len(berData) < 1 THEN error
            ELSE IF berData[Len(berData)] \notin {1, 2, 3, 4} THEN error
            ELSE IF SubSeq(berData, 1, Len(berData) - 1)
                        # DLMSObjectIdentifierPrefix \o <<1>> THEN error
            ELSE Result("ok", [logicalNameRefs |-> berData[Len(berData)] \in {1, 3},
                               cipheredAPDUs |-> berData[Len(berData)] \in {3, 4}])
        Decoded1(decoded) ==
            IF decoded.st # "ok" THEN error
            ELSE IF decoded.val.tag # <<6>> THEN error
            ELSE Of(decoded.val.data)
    IN  Decoded1(BerDecode(data, 1))

\* UserInformation.ToBytes.  The content is a record: type
\* ("InitiateRequest", "InitiateResponse" or another type) and the
\* conformance of the initiate APDU, whose other fields are fixed: no
\* dedicated key, DLMS version 6 and a maximum PDU size of 65535.
UserInformationToBytes(u) ==
    LET Request(conformanceBytes) ==
            IF conformanceBytes.st # "ok" THEN conformanceBytes
            ELSE Result("ok", BerEncode(u.tag,
                    <<1, 0, 0, 6, 95, 31, 4>> \o conformanceBytes.val \o <<255, 255>>))
        Response(conformanceBytes) ==
            IF conformanceBytes.st # "ok" THEN conformanceBytes
            ELSE Result("ok", BerEncode(u.tag,
                    <<8, 0, 6, 95, 31, 4>> \o conformanceBytes.val \o <<255, 255, 0, 7>>))
    IN  IF u.type = "InitiateRequest" THEN Request(ConformanceToBytes(u.conformance))
        ELSE IF u.type = "InitiateResponse" THEN Response(ConformanceToBytes(u.conformance))
        ELSE Result("error", <<>>)

\* UserInformation.FromBytes on a UserInformation whose Tag is tag; the
\* initiate APDU inside is named by its first byte and not parsed further.
UserInformationFromBytes(tag, data) ==
    LET error == Result("error", <<>>)
        Content(berData) ==
            IF Len(berData) = 0 THEN error
            ELSE IF berData[1] = 1 THEN Result("ok", "InitiateRequest")
            ELSE IF berData[1] = 8 THEN Result("ok", "InitiateResponse")
            ELSE error
        Decoded1(decoded) ==
            IF decoded.st # "ok" THEN error
            ELSE IF decoded.val.tag # tag THEN error
            ELSE Content(decoded.val.data)
    IN  Decoded1(BerDecode(data, 1))

\* ApplicationAssociationRequest.ToBytes
AarqToBytes(a) ==
    LET Raw(tag, field) ==
            IF field = <<>> THEN <<>> ELSE BerEncode(<<tag>>, field[1])
        OctetString(tag, field) ==
            IF field = <<>> THEN <<>>
            ELSE BerEncode(<<tag>>, BerEncode(<<4>>, field[1]))
        AuthFunctionalUnitToBytes(unit) ==
            IF unit = <<>> THEN <<>>
            ELSE BerEncode(<<138>>, IF unit[1] THEN <<7, 128>> ELSE <<>>)
        MechanismNameToBytes(name) ==
            IF name = <<>> THEN <<>>
            ELSE BerEncode(<<139>>, DLMSObjectIdentifierPrefix \o <<2, name[1] % 256>>)
        AuthenticationValueToBytes(password) ==
            IF password = <<>> THEN <<>>
            ELSE BerEncode(<<172>>, BerEncode(<<128>>, password[1]))
        Encoded(userInformation) ==
            IF userInformation.st # "ok" THEN userInformation
            ELSE Result("ok", BerEncode(<<AARQTag>>,
                    BerEncode(<<161>>, AppContextNameToBytes(TRUE, a.ciphered))
                    \o Raw(162, a.calledAPTitle)
                    \o Raw(163, a.calledAEQualifier)
                    \o Raw(164, a.calledAPInvocationIdentifier)
                    \o Raw(165, a.calledAEInvocationIdentifier)
                    \o OctetString(166, a.systemTitle)
                    \o OctetString(167, a.publicCert)
                    \o Raw(168, a.callingAPInvocationIdentifier)
                    \o Raw(169, a.callingAEInvocationIdentifier)
                    \o AuthFunctionalUnitToBytes(ACSERequirements(a))
                    \o MechanismNameToBytes(MechanismName(a))
                    \o AuthenticationValueToBytes(a.authenticationValue)
                    \o Raw(189, a.implementationInformation)
                    \o BerEncode(<<190>>, userInformation.val)))
    IN  Encoded(IF a.userInformation = <<>> THEN Result("ok", <<>>)
                ELSE UserInformationToBytes(a.userInformation[1]))

\* ApplicationAssociationResponse.ToBytes.  The result source diagnostics
\* are a record of name ("acse-service-user", "acse-service-provider" or
\* another type) and value, or nil.
AareToBytes(a) ==
    LET error == Result("error", <<>>)
        Raw(tag, field) ==
            IF field = <<>> THEN <<>> ELSE BerEncode(<<tag>>, field[1])
        OctetString(tag, field) ==
            IF field = <<>> THEN <<>>
            ELSE BerEncode(<<tag>>, BerEncode(<<4>>, field[1]))
        Asn1IntegerToBytes(value) ==
            IF value >= 0 /\ value <= 255
            THEN Result("ok", BerEncode(<<2>>, <<value>>)) ELSE error
        ResultSourceDiagnosticsToBytes(diagnostics) ==
            IF diagnostics = <<>> THEN Result("ok", <<>>)
            ELSE IF diagnostics[1].name = "acse-service-user"
            THEN Result("ok", BerEncode(<<163>>, BerEncode(<<129>>, <<diagnostics[1].value>>)))
            ELSE IF diagnostics[1].name = "acse-service-provider"
            THEN Result("ok", BerEncode(<<163>>, BerEncode(<<130>>, <<diagnostics[1].value>>)))
            ELSE error
        AuthFunctionalUnitToBytes(unit) ==
            IF unit = <<>> THEN <<>>
            ELSE BerEncode(<<136>>, IF unit[1] THEN <<7, 128>> ELSE <<>>)
        MechanismNameToBytes(name) ==
            IF name = <<>> THEN <<>>
            ELSE BerEncode(<<137>>, DLMSObjectIdentifierPrefix \o <<2, name[1] % 256>>)
        AuthenticationValueToBytes(password) ==
            IF password = <<>> THEN <<>>
            ELSE BerEncode(<<170>>, BerEncode(<<128>>, password[1]))
        Encoded(result, diagnostics, userInformation) ==
            IF result.st # "ok" THEN result
            ELSE IF diagnostics.st # "ok" THEN diagnostics
            ELSE IF userInformation.st # "ok" THEN userInformation
            ELSE Result("ok", BerEncode(<<AARETag>>,
                    BerEncode(<<161>>, AppContextNameToBytes(TRUE, a.ciphered))
                    \o BerEncode(<<162>>, result.val)
                    \o diagnostics.val
                    \o OctetString(164, a.systemTitle)
                    \o OctetString(165, a.publicCert)
                    \o Raw(166, a.respondingAPInvocationID)
                    \o Raw(167, a.respondingAEInvocationID)
                    \o AuthFunctionalUnitToBytes(ACSERequirements(a))
                    \o MechanismNameToBytes(MechanismName(a))
                    \o AuthenticationValueToBytes(a.authenticationValue)
                    \o Raw(189, a.implementationInformation)
                    \o BerEncode(<<190>>, userInformation.val)))
    IN  Encoded(Asn1IntegerToBytes(a.result),
                ResultSourceDiagnosticsToBytes(a.resultSourceDiagnostics),
                IF a.userInformation = <<>> THEN Result("ok", <<>>)
                ELSE UserInformationToBytes(a.userInformation[1]))


\* ApplicationAssociationRequest.FromBytes.  The user-information object is
\* given to the FromBytes of a UserInformation whose Tag is nil.
AarqFromBytes(sourceBytes) ==
    LET error == Result("error", <<>>)
        names == {"application_context_name", "called_ap_title", "called_ae_qualifier",
                  "called_ap_invocation_identifier", "called_ae_invocation_identifier",
                  "calling_ap_title", "calling_ae_qualifier",
                  "calling_ap_invocation_identifier", "calling_ae_invocation_identifier",
                  "sender_acse_requirements", "mechanism_name",
                  "calling_authentication_value", "implementation_information",
                  "user_information"}
        raw == [t \in {162, 163, 164, 165, 168, 169, 189} |->
                    CASE t = 162 -> "called_ap_title"
                      [] t = 163 -> "called_ae_qualifier"
                      [] t = 164 -> "called_ap_invocation_identifier"
                      [] t = 165 -> "called_ae_invocation_identifier"
                      [] t = 168 -> "calling_ap_invocation_identifier"
                      [] t = 169 -> "calling_ae_invocation_identifier"
                      [] t = 189 -> "implementation_information"]
        AuthFunctionalUnitFromBytes(data) ==
            IF Len(data) # 2 THEN error ELSE Result("ok", data[2] # 0)
        MechanismNameFromBytes(data) ==
            IF Len(data) < 1 THEN error
            ELSE IF SubSeq(data, 1, Len(data) - 1) # DLMSObjectIdentifierPrefix \o <<2>>
            THEN error
            ELSE Result("ok", data[Len(data)])
        AuthenticationValueFromBytes(decoded) ==
            IF decoded.st # "ok" THEN error
            ELSE IF decoded.val.tag \notin {<<128>>, <<129>>} THEN error
            ELSE Result("ok", decoded.val.data)
        RECURSIVE objects(_, _)
        objects(aarqData, objectDict) ==
            IF Len(aarqData) = 0 THEN Result("ok", objectDict)
            ELSE IF Len(aarqData) < 2 THEN error
            ELSE IF Len(aarqData) - 2 < aarqData[2] THEN error
            ELSE LET objectTag == aarqData[1]
                     objectData == SubSeq(aarqData, 3, 2 + aarqData[2])
                     rest == Drop(aarqData, 2 + aarqData[2])
                     Put(objectName, parsedData) ==
                        IF parsedData.st # "ok" THEN error
                        ELSE objects(rest, [objectDict EXCEPT ![objectName] = <<parsedData.val>>])
                 IN  IF objectTag = 128 THEN objects(rest, objectDict)
                     ELSE IF objectTag = 161
                     THEN Put("application_context_name", AppContextNameFromBytes(objectData))
                     ELSE IF objectTag \in DOMAIN raw
                     THEN Put(raw[objectTag], Result("ok", objectData))
                     ELSE IF objectTag \in {166, 167}
                     THEN Put(IF objectTag = 166 THEN "calling_ap_title"
                              ELSE "calling_ae_qualifier",
                              Result("ok", IF Len(objectData) >= 2
                                           THEN Drop(objectData, 2) ELSE objectData))
                     ELSE IF objectTag = 138
                     THEN Put("sender_acse_requirements", AuthFunctionalUnitFromBytes(objectData))
                     ELSE IF objectTag = 139
                     THEN Put("mechanism_name", MechanismNameFromBytes(objectData))
                     ELSE IF objectTag = 172
                     THEN Put("calling_authentication_value",
                              AuthenticationValueFromBytes(BerDecode(objectData, 1)))
                     ELSE IF objectTag = 190
                     THEN Put("user_information", UserInformationFromBytes(<<>>, objectData))
                     ELSE error
        authentication(d) ==
            IF /\ d["sender_acse_requirements"] # <<>>
               /\ d["mechanism_name"] # <<>>
               /\ d["sender_acse_requirements"][1]
            THEN d["mechanism_name"][1] ELSE -1
        Built(parsed) ==
            IF parsed.st # "ok" THEN error
            ELSE IF parsed.val["application_context_name"] = <<>> THEN error
            ELSE IF ~parsed.val["application_context_name"][1].logicalNameRefs THEN error
            ELSE IF parsed.val["user_information"] = <<>> THEN error
            ELSE Result("ok",
                    [userInformation |-> parsed.val["user_information"],
                     systemTitle |-> parsed.val["calling_ap_title"],
                     publicCert |-> parsed.val["calling_ae_qualifier"],
                     authentication |-> authentication(parsed.val),
                     ciphered |-> parsed.val["application_context_name"][1].cipheredAPDUs,
                     authenticationValue |-> parsed.val["calling_authentication_value"],
                     calledAPTitle |-> parsed.val["called_ap_title"],
                     calledAEQualifier |-> parsed.val["called_ae_qualifier"],
                     calledAPInvocationIdentifier |->
                        parsed.val["called_ap_invocation_identifier"],
                     calledAEInvocationIdentifier |->
                        parsed.val["called_ae_invocation_identifier"],
                     callingAPInvocationIdentifier |->
                        parsed.val["calling_ap_invocation_identifier"],
                     callingAEInvocationIdentifier |->
                        parsed.val["calling_ae_invocation_identifier"],
                     implementationInformation |->
                        parsed.val["implementation_information"]])
    IN  IF Len(sourceBytes) = 0 THEN error
        ELSE IF sourceBytes[1] # AARQTag THEN error
        ELSE IF Len(sourceBytes) < 2 THEN error
        ELSE IF Len(sourceBytes) - 2 # sourceBytes[2] THEN error
        ELSE Built(objects(Drop(sourceBytes, 2), [n \in names |-> <<>>]))

\* ApplicationAssociationResponse.FromBytes.  The user-information object
\* is given to the FromBytes of a UserInformation whose Tag is nil.
AareFromBytes(sourceBytes) ==
    LET error == Result("error", <<>>)
        names == {"application_context_name", "result", "result_source_diagnostics",
                  "responding_ap_title", "responding_ae_qualifier",
                  "responding_ap_invocation_id", "responding_ae_invocation_id",
                  "responder_acse_requirements", "mechanism_name",
                  "responding_authentication_value", "implementation_information",
                  "user_information"}
        Asn1IntegerFromBytes(decoded) ==
            IF decoded.st # "ok" THEN error
            ELSE IF decoded.val.tag # <<2>> THEN error
            ELSE IF Len(decoded.val.data) = 1 THEN Result("ok", decoded.val.data[1])
            ELSE IF Len(decoded.val.data) = 2
            THEN Result("ok", decoded.val.data[1] * 256 + decoded.val.data[2])
            ELSE IF Len(decoded.val.data) = 4
            THEN Result("ok", BigEndianUint32(decoded.val.data))
            ELSE error
        ResultSourceDiagnosticsFromBytes(data, decoded) ==
            IF /\ Len(data) >= 2
               /\ data[1] \in {129, 130}
               /\ decoded.st = "ok"
               /\ Len(decoded.val.data) > 0
            THEN Result("ok", [name |-> IF data[1] = 129 THEN "acse-service-user"
                                        ELSE "acse-service-provider",
                               value |-> decoded.val.data[1]])
            ELSE error
        AuthFunctionalUnitFromBytes(data) ==
            IF Len(data) # 2 THEN error ELSE Result("ok", data[2] # 0)
        MechanismNameFromBytes(data) ==
            IF Len(data) < 1 THEN error
            ELSE IF SubSeq(data, 1, Len(data) - 1) # DLMSObjectIdentifierPrefix \o <<2>>
            THEN error
            ELSE Result("ok", data[Len(data)])
        AuthenticationValueFromBytes(decoded) ==
            IF decoded.st # "ok" THEN error
            ELSE IF decoded.val.tag \notin {<<128>>, <<129>>} THEN error
            ELSE Result("ok", decoded.val.data)
        RECURSIVE objects(_, _)
        objects(aareData, objectDict) ==
            IF Len(aareData) = 0 THEN Result("ok", objectDict)
            ELSE IF Len(aareData) < 2 THEN error
            ELSE IF Len(aareData) - 2 < aareData[2] THEN error
            ELSE LET objectTag == aareData[1]
                     objectData == SubSeq(aareData, 3, 2 + aareData[2])
                     rest == Drop(aareData, 2 + aareData[2])
                     Put(objectName, parsedData) ==
                        IF parsedData.st # "ok" THEN error
                        ELSE objects(rest, [objectDict EXCEPT ![objectName] = <<parsedData.val>>])
                 IN  IF objectTag = 128 THEN objects(rest, objectDict)
                     ELSE IF objectTag = 161
                     THEN Put("application_context_name", AppContextNameFromBytes(objectData))
                     ELSE IF objectTag = 162
                     THEN Put("result", Asn1IntegerFromBytes(BerDecode(objectData, 1)))
                     ELSE IF objectTag = 163
                     THEN Put("result_source_diagnostics",
                              ResultSourceDiagnosticsFromBytes(objectData,
                                                               BerDecode(objectData, 1)))
                     ELSE IF objectTag \in {164, 165}
                     THEN Put(IF objectTag = 164 THEN "responding_ap_title"
                              ELSE "responding_ae_qualifier",
                              Result("ok", IF Len(objectData) >= 2
                                           THEN Drop(objectData, 2) ELSE objectData))
                     ELSE IF objectTag \in {166, 167, 189}
                     THEN Put(IF objectTag = 166 THEN "responding_ap_invocation_id"
                              ELSE IF objectTag = 167 THEN "responding_ae_invocation_id"
                              ELSE "implementation_information",
                              Result("ok", objectData))
                     ELSE IF objectTag = 136
                     THEN Put("responder_acse_requirements",
                              AuthFunctionalUnitFromBytes(objectData))
                     ELSE IF objectTag = 137
                     THEN Put("mechanism_name", MechanismNameFromBytes(objectData))
                     ELSE IF objectTag = 170
                     THEN Put("responding_authentication_value",
                              AuthenticationValueFromBytes(BerDecode(objectData, 1)))
                     ELSE IF objectTag = 190
                     THEN Put("user_information", UserInformationFromBytes(<<>>, objectData))
                     ELSE error
        authentication(d) ==
            IF /\ d["responder_acse_requirements"] # <<>>
               /\ d["mechanism_name"] # <<>>
               /\ d["responder_acse_requirements"][1]
            THEN d["mechanism_name"][1] ELSE -1
        Built(parsed) ==
            IF parsed.st # "ok" THEN error
            ELSE IF parsed.val["application_context_name"] = <<>> THEN error
            ELSE IF ~parsed.val["application_context_name"][1].logicalNameRefs THEN error
            ELSE IF parsed.val["result"] = <<>> THEN error
            ELSE IF parsed.val["result_source_diagnostics"] = <<>> THEN error
            ELSE Result("ok",
                    [result |-> parsed.val["result"][1] % 256,
                     resultSourceDiagnostics |-> parsed.val["result_source_diagnostics"],
                     ciphered |-> parsed.val["application_context_name"][1].cipheredAPDUs,
                     authentication |-> authentication(parsed.val),
                     systemTitle |-> parsed.val["responding_ap_title"],
                     publicCert |-> parsed.val["responding_ae_qualifier"],
                     authenticationValue |-> parsed.val["responding_authentication_value"],
                     userInformation |-> parsed.val["user_information"],
                     implementationInformation |-> parsed.val["implementation_information"],
                     respondingAPInvocationID |-> parsed.val["responding_ap_invocation_id"],
                     respondingAEInvocationID |-> parsed.val["responding_ae_invocation_id"]])
    IN  IF Len(sourceBytes) = 0 THEN error
        ELSE IF sourceBytes[1] # AARETag THEN error
        ELSE IF Len(sourceBytes) < 2 THEN error
        ELSE IF Len(sourceBytes) - 2 # sourceBytes[2] THEN error
        ELSE Built(objects(Drop(sourceBytes, 2), [n \in names |-> <<>>]))


(***************************************************************************)
(* hdlc.InformationControlField: the two sequence numbers (uint8) and the  *)
(* final flag.                                                             *)
(***************************************************************************)
NewInformationControlField(sendSequenceNumber, receiveSequenceNumber, final) ==
    IF sendSequenceNumber > 7 THEN Result("error", <<>>)
    ELSE IF receiveSequenceNumber > 7 THEN Result("error", <<>>)
    ELSE Result("ok", [ssn |-> sendSequenceNumber, rsn |-> receiveSequenceNumber,
                       final |-> final])

\* Mutant: the final bit is always set, as in ReceiveReadyControlField.
InformationControlFieldToBytes_AlwaysFinal(i) ==
    LET Or(out, bit) == IF (out \div bit) % 2 = 1 THEN out ELSE out + bit
    IN  <<Or((((i.ssn * 2) % 256) + ((i.rsn * 32) % 256)) % 256, 16)>>

\* InformationControlField.ToBytes, in uint8 arithmetic.
InformationControlFieldToBytes(i) ==
    LET Or(out, bit) == IF (out \div bit) % 2 = 1 THEN out ELSE out + bit
        out == (((i.ssn * 2) % 256) + ((i.rsn * 32) % 256)) % 256
    IN  <<IF i.final THEN Or(out, 16) ELSE out>>

\* InformationControlField.FromBytes
InformationControlFieldFromBytes(inByte) ==
    LET value == inByte[1]
        notInfoFrame == value % 2 # 0
        ssn == (value % 16) \div 2
        rsn == value \div 32
        final == (value \div 16) % 2 # 0
    IN  IF Len(inByte) # 1 THEN Result("error", <<>>)
        ELSE IF notInfoFrame THEN Result("error", <<>>)
        ELSE NewInformationControlField(ssn, rsn, final)

(***************************************************************************)
(* The codec calls.  A behaviour picks one input and makes one call.       *)
(***************************************************************************)
MaxAddress == 2         \* logical and physical addresses 0..MaxAddress, 16, 127
MaxSequenceNumber == 8  \* sequence numbers 0, 7 and MaxSequenceNumber
MaxCrcLen == 2          \* byte sequences of up to MaxCrcLen bytes
MaxCounter == 1         \* invocation counters 0..MaxCounter and 0x1234

\* Every address NewHdlcAddress accepts, within the bounds.
HdlcAddresses ==
    LET values == (0..MaxAddress) \cup {16, 127}
    IN  {NewHdlcAddress(l, p, t, x).val :
            l \in values, p \in values \cup {-1},
            t \in {"client", "server"}, x \in BOOLEAN}

\* Frames as the constructors build them, between server 1 and client 16.
HdlcFrames ==
    LET server == NewHdlcAddress(1, -1, "server", FALSE).val
        client == NewHdlcAddress(16, -1, "client", FALSE).val
        numbers == {0, 7, MaxSequenceNumber}
        payloads == {<<>>, <<129, 128>>}
    IN  {NewFrame("SNRM", server, client, <<>>, 0, 0, FALSE, TRUE)}
        \cup {NewFrame("DISC", server, client, <<>>, 0, 0, FALSE, TRUE)}
        \cup {NewFrame("UA", client, server, p, 0, 0, FALSE, TRUE) : p \in payloads}
        \cup {NewFrame("RR", client, server, <<>>, 0, r, FALSE, TRUE) : r \in numbers}
        \cup {NewFrame("I", client, server, p, s, r, g, f) :
                p \in payloads, s \in numbers, r \in numbers,
                g \in BOOLEAN, f \in BOOLEAN}

\* Frames as they arrive: what IEC 62056-46 prescribes for a UA, an RR, an I
\* and a DISC frame between server 1 and client 16, and damaged ones.
\* A well-formed I-frame from server 1 to client 16, send and receive
\* sequence numbers 0, final: flag, format and length, addresses, control
\* byte, HCS over these, the information field llc \o payload, FCS over all
\* of it, flag.
InformationWire(llc, payload) ==
    LET Of(header) ==
            LET content == header \o CalculateFor(header) \o llc \o payload
            IN  <<HDLCFlag>> \o content \o CalculateFor(content) \o <<HDLCFlag>>
    IN  Of(<<160, 9 + Len(llc) + Len(payload), 33, 3, 16>>)

WireFrames ==
    { <<>>, <<HDLCFlag>>, <<HDLCFlag, HDLCFlag>>,
      <<HDLCFlag, 160, 2, HDLCFlag>>,
      <<HDLCFlag, 160, 3, 33, HDLCFlag>>,
      <<HDLCFlag, 160, 4, 33, 3, HDLCFlag>>,
      <<HDLCFlag, 0, 3, 33, HDLCFlag>>,
      <<HDLCFlag, 160, 9, 33, 3, 115, HDLCFlag>> }
    \cup
    { <<HDLCFlag>> \o content \o CalculateFor(content) \o <<HDLCFlag>> :
        content \in
            { <<160, 7, 33, 3, 115>>, <<160, 7, 33, 3, 49>>,
              <<160, 7, 33, 3, 48>>, <<160, 7, 3, 33, 83>> }
            \cup
            { h[1] \o CalculateFor(h[1]) \o h[2] :
                h \in { <<<<160, 10, 33, 3, 115>>, <<129>>>>,
                        <<<<160, 13, 33, 3, 16>>, <<230, 231, 0, 170>>>> } } }
    \cup {InformationWire(llc, <<196, 1>>) : llc \in {LLCCommandHeader, LLCResponseHeader}}

\* Every single byte, and the sequences of up to MaxCrcLen bytes of four
\* values.
CrcMessages ==
    {<<b>> : b \in 0..255}
    \cup UNION {[1..n -> {0, 1, 126, 255}] : n \in 0..MaxCrcLen}

ReleaseApdus ==
    [apdu : {"RLRQ", "RLRE"}, reason : {-1, 0, 1, 30}]

ActionResponses ==
    [status : {0, 1, 250},
     data : {<<>>, <<0>>, <<1, 3>>, <<9, 1, 170>>, <<0, 9, 1, 170>>},
     invokeIdAndPriority : {InvokeIdAndPriorityFromBytes(b) : b \in {1, 193}}]

ExceptionResponses ==
    [stateError : {1, 2}, serviceError : 1..6,
     invocationCounterData : (-1..MaxCounter) \cup {4660}]

ExceptionWire ==
    {<<216, 1, 6, 0, 0, 18, 52>>, <<216, 1, 6, 0, 0>>, <<216, 2, 1>>,
     <<216, 1>>, <<199, 1, 6>>}


\* APDUs as they arrive: every first byte, alone and followed by a type
\* byte, an invoke-id-and-priority byte and a choice byte.
ApduWire ==
    {<<>>}
    \cup {<<t>> \o rest :
            t \in 0..255,
            rest \in {<<>>, <<1, 193, 0, 0>>, <<1, 193, 1, 3>>, <<2, 193, 0, 0, 0, 0, 1>>}}


\* Descriptors of the attributes 2 and 3 of a Data, a Register and a Clock
\* object.
CosemAttributes ==
    [interface : {1, 3, 8},
     instance : {<<1, 0, 1, 8, 0, 255>>, <<0, 0, 1, 0, 0, 255>>, <<0, 0, 96, 1, 0, 255>>},
     attribute : {2, 3}]

GetRequests ==
    [cosemAttribute : CosemAttributes,
     invokeIdAndPriority : {InvokeIdAndPriorityFromBytes(b) : b \in {1, 65, 193}},
     accessSelection : {"nil"}]


MaxItems == 2           \* arrays and structures of up to MaxItems items

\* One value of every type with its extremes, and the arrays and structures
\* of up to MaxItems of some of them, one level of nesting included.
DlmsScalars ==
    {Data("NullData", 0, <<>>, <<>>)}
    \cup {Data("BooleanData", v, <<>>, <<>>) : v \in {0, 1}}
    \cup {Data("IntegerData", v, <<>>, <<>>) : v \in {-128, 0, 127}}
    \cup {Data("UnsignedIntegerData", v, <<>>, <<>>) : v \in {0, 255}}
    \cup {Data("LongData", v, <<>>, <<>>) : v \in {-32768, 258}}
    \cup {Data("UnsignedLongData", v, <<>>, <<>>) : v \in {0, 65535}}
    \cup {Data("DoubleLongData", v, <<>>, <<>>) : v \in {-1, 16909060}}
    \cup {Data("DoubleLongUnsignedData", v, <<>>, <<>>) : v \in {0, 16909060}}
    \cup {Data(t, 0, b, <<>>) : t \in {"OctetStringData", "VisibleStringData"},
                                b \in {<<>>, <<65>>, <<65, 66>>}}

DlmsValues ==
    LET few == {Data("NullData", 0, <<>>, <<>>), Data("BooleanData", 1, <<>>, <<>>),
                Data("UnsignedIntegerData", 255, <<>>, <<>>),
                Data("OctetStringData", 0, <<65>>, <<>>)}
        Lists(S) == UNION {[1..n -> S] : n \in 0..MaxItems}
        flat == {Data(t, 0, <<>>, items) :
                    t \in {"DataArray", "DataStructure"}, items \in Lists(few)}
        nested == {Data(t, 0, <<>>, items) :
                    t \in {"DataArray", "DataStructure"},
                    items \in Lists({Data("NullData", 0, <<>>, <<>>),
                                     Data("DataArray", 0, <<>>, <<>>),
                                     Data("DataStructure", 0, <<>>,
                                          <<Data("NullData", 0, <<>>, <<>>)>>)})}
    IN  DlmsScalars \cup flat \cup nested

\* A-XDR bytes as a meter sends them, well-formed and not.
AXdrWire ==
    {<<>>, <<0>>, <<3, 1>>, <<3, 0>>, <<15, 255>>, <<17, 255>>, <<16, 128, 0>>,
     <<18, 255, 255>>, <<5, 255, 255, 255, 255>>, <<6, 1, 2, 3, 4>>, <<9, 0>>,
     <<9, 1, 65>>, <<10, 2, 65, 66>>, <<1, 0>>, <<1, 1, 0>>, <<2, 2, 17, 5, 3, 1>>,
     <<4, 0>>, <<6, 1, 2>>, <<1, 1>>, <<9, 129, 1, 65>>, <<0, 0>>, <<0, 3, 1>>}


MaxBerLen == 2          \* BER contents of up to MaxBerLen bytes, and long ones

\* Contents to encode: the short ones over three byte values, and contents
\* of 127, 128 and 255 bytes.
BerContents ==
    UNION {[1..n -> {0, 2, 255}] : n \in 0..MaxBerLen}
    \cup {[i \in 1..n |-> 170] : n \in {127, 128, 255}}

\* Bytes to decode: every sequence of up to MaxBerLen + 2 bytes of four
\* values.
BerWire ==
    UNION {[1..n -> 0..3] : n \in 0..(MaxBerLen + 2)}


\* No flag, each flag alone, two flags, and all of them.
Conformances ==
    {{}} \cup {{flag} : flag \in DOMAIN ConformanceBitPosition}
    \cup {{"get", "set"}, {"action", "general_protection"}, DOMAIN ConformanceBitPosition}

\* Conformance blocks as they arrive: each of the 24 bits alone, and others.
ConformanceWire ==
    {<<0, (2^b \div 65536) % 256, (2^b \div 256) % 256, 2^b % 256>> : b \in 0..23}
    \cup {<<>>, <<0, 0, 0>>, <<0, 0, 0, 0>>, <<0, 0, 0, 24>>, <<0, 255, 255, 255>>,
          <<7, 0, 0, 1>>, <<0, 0, 0, 1, 0>>}


\* OBIS codes and the strings given to FromString: the canonical and the
\* dotted form of each code, its five-part form, forms with one component
\* above 255 and strings that are no OBIS code.
ObisCodes ==
    {<<1, 0, 1, 8, 0, 255>>, <<0, 0, 96, 1, 0, 255>>, <<1, 0, 1, 8, 0, 0>>,
     <<0, 0, 0, 0, 0, 0>>, <<255, 255, 255, 255, 255, 255>>,
     <<1, 1, 32, 7, 124, 255>>}

Dots == [i \in 1..5 |-> "."]

ObisStrings ==
    {ObisToString(o, separator) : o \in ObisCodes, separator \in {"", ".", "-"}}
    \cup {Sprintf(SubSeq(o, 1, 5), Dots) : o \in ObisCodes}
    \cup {Sprintf([o EXCEPT ![i] = v], Dots) :
            o \in ObisCodes, i \in 1..6, v \in {256, 999, 1000}}
    \cup {<<>>, <<"1">>, Sprintf(<<1, 0, 1, 8>>, Dots),
          Sprintf(<<1, 0, 1, 8, 0, 255, 1>>, Dots \o <<".">>),
          <<"1", ".", ".", "1", ".", "8", ".", "0", ".", "2", "5", "5">>,
          <<"a", ".", "0", ".", "1", ".", "8", ".", "0", ".", "2", "5", "5">>,
          <<"0", "0", "1", ".", "0", ".", "1", ".", "8", ".", "0", ".", "2", "5", "5">>}


\* Descriptors on the wire: nine bytes with every choice of the two class-id
\* bytes below, and sequences of eight and ten bytes.
CosemAttributeWire ==
    {<<high, low>> \o instance \o attribute :
        high \in {0, 1, 128, 255}, low \in {0, 1, 3, 255},
        instance \in {<<1, 0, 1, 8, 0, 255>>, <<0, 0, 96, 1, 0, 255>>},
        attribute \in {<<0>>, <<2>>, <<255>>, <<>>, <<2, 0>>}}


\* Association requests and responses given to ToBytes: every mechanism
\* below with and without user-information, system title, password and one
\* further optional field; a password and a title that hold the bytes of an
\* acse-requirements or mechanism-name field.
UserInformations ==
    {<<>>} \cup {<<[tag |-> <<4>>, type |-> type, conformance |-> {"get"}]>> :
                    type \in {"InitiateRequest", "InitiateResponse", "ConfirmedServiceError"}}

Mechanisms == {-1, AuthenticationMechanismNone, 1, 2, 5, 7}

Aarqs ==
    [userInformation : UserInformations,
     systemTitle : {<<>>, << <<>> >>, << <<77, 77, 77, 0, 0, 0, 0, 1>> >>},
     publicCert : {<<>>},
     authentication : Mechanisms,
     ciphered : BOOLEAN,
     authenticationValue : {<<>>, << <<138, 2, 7, 128>> >>},
     callingAEInvocationIdentifier : {<<>>},
     calledAPTitle : {<<>>, << <<139, 0>> >>},
     calledAEQualifier : {<<>>},
     calledAPInvocationIdentifier : {<<>>},
     calledAEInvocationIdentifier : {<<>>},
     callingAPInvocationIdentifier : {<<>>},
     implementationInformation : {<<>>}]

Aares ==
    [result : {AssociationResultAccepted, AssociationResultRejectedPermanent},
     resultSourceDiagnostics :
        {<<>>, <<[name |-> "acse-service-user", value |-> 0]>>,
         <<[name |-> "acse-service-provider", value |-> 1]>>,
         <<[name |-> "int", value |-> 0]>>},
     ciphered : BOOLEAN,
     authentication : Mechanisms,
     systemTitle : {<<>>, << <<77, 77, 77, 0, 0, 0, 0, 1>> >>},
     publicCert : {<<>>},
     authenticationValue : {<<>>, << <<136, 2, 7, 128>> >>},
     userInformation : UserInformations,
     implementationInformation : {<<>>},
     respondingAPInvocationID : {<<>>, << <<137, 0>> >>},
     respondingAEInvocationID : {<<>>}]

\* Association APDUs as they arrive, described by what they hold: the
\* context-id that ends the application-context-name, and whether the result
\* and its diagnostics, the two authentication fields and the
\* user-information are there.
AcseWires ==
    [contextId : 0..5, result : BOOLEAN, authentication : BOOLEAN,
     userInformation : BOOLEAN]

AssociationWire(apdu, w) ==
    LET isAarq == apdu = AARQTag
        body ==
            <<161, 9, 6, 7>> \o DLMSObjectIdentifierPrefix \o <<1, w.contextId>>
            \o (IF w.result THEN <<162, 3, 2, 1, 0, 163, 3, 129, 1, 0>> ELSE <<>>)
            \o (IF w.authentication
                THEN <<IF isAarq THEN 138 ELSE 136, 2, 7, 128>>
                     \o <<IF isAarq THEN 139 ELSE 137, 7>>
                     \o DLMSObjectIdentifierPrefix \o <<2, 1>>
                ELSE <<>>)
            \o (IF w.userInformation
                THEN <<190, 16, 4, 14>>
                     \o (IF isAarq
                         THEN <<1, 0, 0, 0, 6, 95, 31, 4, 0, 0, 126, 31, 255, 255>>
                         ELSE <<8, 0, 6, 95, 31, 4, 0, 0, 80, 31, 1, 244, 0, 7>>)
                ELSE <<>>)
    IN  <<apdu, Len(body)>> \o body


\* The arguments of NewInformationControlField: every sequence number the
\* field can hold and numbers that do not fit in three bits.
ControlFieldArguments ==
    LET numbers == (0..MaxSequenceNumber) \cup {255}
    IN  [ssn : numbers, rsn : numbers, final : BOOLEAN]

\* Every byte, and inputs that are not one byte long.
ControlFieldWire == {<<value>> : value \in 0..255} \cup {<<>>, <<0, 0>>}

Returns(name, value) ==
    /\ op = "none"
    /\ op' = name
    /\ ret' = value
    /\ UNCHANGED <<arg, hdlcVars, dlmsVars>>

CallHdlcAddressToBytes ==
    /\ arg.k = "address"
    /\ Returns("HdlcAddress.ToBytes", HdlcAddressToBytes(arg.x))

CallToBytes ==
    /\ arg.k = "frame"
    /\ Returns("ToBytes", ToBytes(arg.x))

CallHCS ==
    /\ arg.k = "frame"
    /\ Returns("HCS", HCS(arg.x))

CallGetControlField ==
    /\ arg.k = "frame"
    /\ Returns("GetControlField", ControlFieldToBytes(arg.x))

CallFromBytes ==
    /\ arg.k = "wire"
    /\ Returns("FromBytes", FrameFromBytes(arg.kind, arg.x))

\* The receiver of arg.x and its CRC, one bit of which was flipped on the
\* way, recomputes the CRC and compares it with the two bytes received.
CallCalculateFor ==
    /\ arg.k = "bytes"
    /\ \E bit \in 0..(8 * (Len(arg.x) + 2) - 1) :
        LET Flip(sent, at) == [sent EXCEPT ![at] = Xor(sent[at], 2^(bit % 8))]
            Received(crc, received) ==
                [bit |-> bit,
                 crc |-> crc,
                 verified |-> CalculateFor(arg.x) = crc,
                 flippedData |-> SubSeq(received, 1, Len(arg.x)),
                 flippedCrc |-> Drop(received, Len(arg.x))]
            Sent(crc) == Received(crc, Flip(arg.x \o crc, (bit \div 8) + 1))
            Verified(r, calculated) ==
                [bit |-> r.bit, crc |-> r.crc, verified |-> r.verified,
                 calculated |-> calculated,
                 flippedVerified |-> calculated = r.flippedCrc]
            Verify(r) == Verified(r, CalculateFor(r.flippedData))
        IN  Returns("CalculateFor", Verify(Sent(CalculateFor(arg.x))))

CallReleaseToBytes ==
    /\ arg.k = "release"
    /\ LET Back(bytes) == [bytes |-> bytes, back |-> ReleaseFromBytes(arg.x.apdu, bytes)]
       IN  Returns("Release.ToBytes", Back(ReleaseToBytes(arg.x)))

CallActionResponseToBytes ==
    /\ arg.k = "action"
    /\ LET Back(bytes) == [bytes |-> bytes, back |-> ActionResponseFromBytes(bytes)]
       IN  Returns("ActionResponseNormalWithData.ToBytes", Back(ActionResponseNormalWithDataToBytes(arg.x)))

CallExceptionResponseToBytes ==
    /\ arg.k = "exception"
    /\ LET Back(bytes) == [bytes |-> bytes, back |-> ExceptionResponseFromBytes(bytes)]
       IN  Returns("ExceptionResponse.ToBytes", Back(ExceptionResponseToBytes(arg.x)))

CallExceptionResponseFromBytes ==
    /\ arg.k = "exceptionWire"
    /\ LET Again(parsed) ==
            [parsed |-> parsed,
             bytes |-> IF parsed.st = "ok"
                       THEN ExceptionResponseToBytes(parsed.val) ELSE <<>>]
       IN  Returns("ExceptionResponse.FromBytes",
                   Again(ExceptionResponseFromBytes(arg.x)))


CallAPDUFromBytes ==
    /\ arg.k = "apdu"
    /\ Returns("APDUFromBytes", APDUFromBytes(arg.x))


CallGetRequestNormalToBytes ==
    /\ arg.k = "getRequest"
    /\ LET Back(bytes) == [bytes |-> bytes, back |-> GetRequestNormalFromBytes(bytes)]
       IN  Returns("GetRequestNormal.ToBytes", Back(GetRequestNormalToBytes(arg.x)))


CallDlmsDataToBytes ==
    /\ arg.k = "data"
    /\ LET Back(bytes) ==
            [bytes |-> bytes,
             back |-> IF bytes.st = "ok" THEN DecodeSequence(bytes.val)
                      ELSE Result("error", <<>>)]
       IN  Returns("DlmsData.ToBytes", Back(DlmsDataToBytes(arg.x)))

CallDecodeSequence ==
    /\ arg.k = "axdr"
    /\ Returns("AXdrDecoder.Decode", DecodeSequence(arg.x))


CallBerEncode ==
    /\ arg.k = "ber"
    /\ LET Back(bytes) == [bytes |-> bytes, back |-> BerDecode(bytes, 1)]
       IN  Returns("BER.Encode", Back(BerEncode(<<arg.tag>>, arg.x)))

CallBerDecode ==
    /\ arg.k = "berWire"
    /\ Returns("BER.Decode", BerDecode(arg.x, 1))


CallConformanceToBytes ==
    /\ arg.k = "conformance"
    /\ LET Back(bytes) ==
            [bytes |-> bytes,
             back |-> IF bytes.st = "ok" THEN ConformanceFromBytes(bytes.val)
                      ELSE Result("error", {})]
       IN  Returns("Conformance.ToBytes", Back(ConformanceToBytes(arg.x)))

CallConformanceFromBytes ==
    /\ arg.k = "conformanceWire"
    /\ Returns("Conformance.FromBytes", ConformanceFromBytes(arg.x))


\* NewInvokeIdAndPriority, then ToBytes of what it built and FromBytes of
\* that byte.
CallNewInvokeIdAndPriority ==
    /\ arg.k = "invoke"
    /\ LET Back(bytes) == [new |-> Result("ok", arg.x), bytes |-> bytes,
                           back |-> InvokeIdAndPriorityFromBytes(bytes[1])]
           Built(new) ==
                IF new.st # "ok" THEN [new |-> new, bytes |-> <<>>, back |-> <<>>]
                ELSE Back(InvokeIdAndPriorityToBytes(new.val))
       IN  Returns("NewInvokeIdAndPriority",
                   Built(NewInvokeIdAndPriority(arg.x.invokeId, arg.x.confirmed,
                                                arg.x.highPriority)))


CallObisFromString ==
    /\ arg.k = "obisString"
    /\ Returns("cosem.FromString", ObisFromString(arg.x))


\* CosemAttribute.FromBytes, then ToBytes of the descriptor it returned.
CallCosemAttributeFromBytes ==
    /\ arg.k = "attributeWire"
    /\ LET Of(attr) == [attr |-> attr,
                        bytes |-> IF attr.st = "ok"
                                  THEN CosemAttributeToBytes(attr.val) ELSE <<>>]
       IN  Returns("CosemAttribute.FromBytes", Of(CosemAttributeFromBytes(arg.x)))


CallAarqToBytes ==
    /\ arg.k = "aarq"
    /\ Returns("ApplicationAssociationRequest.ToBytes", AarqToBytes(arg.x))

CallAareToBytes ==
    /\ arg.k = "aare"
    /\ Returns("ApplicationAssociationResponse.ToBytes", AareToBytes(arg.x))

CallAarqFromBytes ==
    /\ arg.k = "aarqWire"
    /\ Returns("ApplicationAssociationRequest.FromBytes",
               AarqFromBytes(AssociationWire(AARQTag, arg.x)))

CallAareFromBytes ==
    /\ arg.k = "aareWire"
    /\ Returns("ApplicationAssociationResponse.FromBytes",
               AareFromBytes(AssociationWire(AARETag, arg.x)))


\* The address placed in a frame header, first as the destination and then
\* as the source, the other address being client 16, and looked for with
\* FindAddressInFrameBytes.
CallFindAddressInFrameBytes ==
    LET Header(destination, source) ==
            <<HDLCFlag, 160, 0>> \o destination \o source \o <<147, 0, 0, HDLCFlag>>
        own == HdlcAddressToBytes(arg.x)
        peer == HdlcAddressToBytes(NewHdlcAddress(16, -1, "client", FALSE).val)
    IN  /\ arg.k = "address"
        /\ Returns("FindAddressInFrameBytes",
                   [bytes |-> own,
                    asDestination |-> FindAddressInFrameBytes(Header(own, peer)),
                    asSource |-> FindAddressInFrameBytes(Header(peer, own))])


\* NewInformationControlField; on the field it returns, ToBytes, and
\* FromBytes on the byte.
CallNewInformationControlField ==
    LET Of(field) ==
            LET bytes == IF field.st = "ok" THEN InformationControlFieldToBytes(field.val)
                         ELSE <<>>
            IN  [field |-> field, bytes |-> bytes,
                 back |-> IF field.st = "ok" THEN InformationControlFieldFromBytes(bytes)
                          ELSE field]
    IN  /\ arg.k = "controlField"
        /\ Returns("NewInformationControlField",
                   Of(NewInformationControlField(arg.x.ssn, arg.x.rsn, arg.x.final)))

CallInformationControlFieldFromBytes ==
    /\ arg.k = "controlWire"
    /\ Returns("InformationControlField.FromBytes", InformationControlFieldFromBytes(arg.x))

InitCodec ==
    /\ NewHdlcConnectionState
    /\ NewDlmsConnectionState
    /\ dlmsPrev = dlmsState
    /\ dlmsEvent = NoEvent
    /\ dlmsErr = "nil"
    /\ rxErr = FALSE
    /\ lastBlockNumber = -1
    /\ requestInvokeId = -1
    /\ association = "none"
    /\ op = "none"
    /\ \/ arg \in [k : {"address"}, x : HdlcAddresses]
       \/ arg \in [k : {"frame"}, x : HdlcFrames]
       \/ arg \in [k : {"wire"}, kind : {"UA", "RR", "I", "DISC"}, x : WireFrames]
       \/ arg \in [k : {"bytes"}, x : CrcMessages]
       \/ arg \in [k : {"release"}, x : ReleaseApdus]
       \/ arg \in [k : {"action"}, x : ActionResponses]
       \/ arg \in [k : {"exception"}, x : ExceptionResponses]
       \/ arg \in [k : {"exceptionWire"}, x : ExceptionWire]
       \/ arg \in [k : {"apdu"}, x : ApduWire]
       \/ arg \in [k : {"getRequest"}, x : GetRequests]
       \/ arg \in [k : {"data"}, x : DlmsValues]
       \/ arg \in [k : {"axdr"}, x : AXdrWire]
       \/ arg \in [k : {"ber"}, tag : {2, 98, 128}, x : BerContents]
       \/ arg \in [k : {"berWire"}, x : BerWire]
       \/ arg \in [k : {"conformance"}, x : Conformances]
       \/ arg \in [k : {"conformanceWire"}, x : ConformanceWire]
       \/ arg \in [k : {"invoke"}, x : [invokeId : (0..17) \cup {64, 255}, confirmed : BOOLEAN, highPriority : BOOLEAN]]
       \/ arg \in [k : {"obisString"}, x : ObisStrings]
       \/ arg \in [k : {"attributeWire"}, x : CosemAttributeWire]
       \/ arg \in [k : {"aarq"}, x : Aarqs]
       \/ arg \in [k : {"aare"}, x : Aares]
       \/ arg \in [k : {"aarqWire", "aareWire"}, x : AcseWires]
       \/ arg \in [k : {"controlField"}, x : ControlFieldArguments]
       \/ arg \in [k : {"controlWire"}, x : ControlFieldWire]
    /\ ret = <<>>

NextCodec ==
    \/ CallHdlcAddressToBytes
    \/ CallToBytes
    \/ CallHCS
    \/ CallGetControlField
    \/ CallFromBytes
    \/ CallCalculateFor
    \/ CallReleaseToBytes
    \/ CallActionResponseToBytes
    \/ CallExceptionResponseToBytes
    \/ CallExceptionResponseFromBytes
    \/ CallAPDUFromBytes
    \/ CallGetRequestNormalToBytes
    \/ CallDlmsDataToBytes
    \/ CallDecodeSequence
    \/ CallBerEncode
    \/ CallBerDecode
    \/ CallConformanceToBytes
    \/ CallConformanceFromBytes
    \/ CallNewInvokeIdAndPriority
    \/ CallObisFromString
    \/ CallCosemAttributeFromBytes
    \/ CallAarqToBytes
    \/ CallAareToBytes
    \/ CallAarqFromBytes
    \/ CallAareFromBytes
    \/ CallFindAddressInFrameBytes
    \/ CallNewInformationControlField
    \/ CallInformationControlFieldFromBytes

SpecCodec == InitCodec /\ [][NextCodec]_vars

(***************************************************************************)
(* Properties                                                              *)
(***************************************************************************)
SessionCalled == dlmsEvent # NoEvent
SessionAccepted == SessionCalled /\ dlmsErr = "nil"
LinkCalled == hdlcFrame # NoFrame
LinkAccepted == LinkCalled /\ hdlcErr = "nil"

\* The last event given to the session machine was a struct of type t.
ByValue(t) == SessionCalled /\ dlmsEvent.type = t /\ ~dlmsEvent.ptr

\* The transition table of the specification, section 4.9, as
\* <<from, event, to>>; its AwaitingGetBlockResponse row repeats the
\* AwaitingGetResponse row.
GetResponseRowOf(from) ==
    {<<from, "xdlms.GetResponseNormal", Ready>>,
     <<from, "xdlms.GetResponseNormalWithError", Ready>>,
     <<from, "xdlms.ExceptionResponse", Ready>>,
     <<from, "xdlms.GetResponseWithDataBlock", ShouldAckLastGetBlock>>}

SessionTable ==
    {<<NoAssociation, "acse.ApplicationAssociationRequest", AwaitingAssociationResponse>>,
     <<AwaitingAssociationResponse, "acse.ApplicationAssociationResponse", Ready>>,
     <<AwaitingAssociationResponse, "xdlms.ExceptionResponse", NoAssociation>>,
     <<Ready, "xdlms.GetRequestNormal", AwaitingGetResponse>>,
     <<Ready, "xdlms.SetRequestNormal", AwaitingSetResponse>>,
     <<Ready, "xdlms.ActionRequestNormal", AwaitingActionResponse>>,
     <<Ready, "acse.ReleaseRequest", AwaitingReleaseResponse>>,
     <<Ready, "HlsStart", ShouldSendHlsServerChallengeResult>>,
     <<Ready, "xdlms.DataNotification", Ready>>,
     <<Ready, "RejectAssociation", NoAssociation>>,
     <<Ready, "EndAssociation", NoAssociation>>,
     <<ShouldSendHlsServerChallengeResult, "xdlms.ActionRequestNormal",
       AwaitingHlsClientChallengeResult>>,
     <<AwaitingHlsClientChallengeResult, "xdlms.ActionResponseNormalWithData", HlsDone>>,
     <<AwaitingHlsClientChallengeResult, "xdlms.ActionResponseNormal", NoAssociation>>,
     <<AwaitingHlsClientChallengeResult, "xdlms.ActionResponseNormalWithError", NoAssociation>>,
     <<HlsDone, "HlsSuccess", Ready>>,
     <<HlsDone, "HlsFailed", NoAssociation>>,
     <<ShouldAckLastGetBlock, "xdlms.GetRequestNext", AwaitingGetBlockResponse>>,
     <<AwaitingSetResponse, "xdlms.SetResponseNormal", Ready>>,
     <<AwaitingActionResponse, "xdlms.ActionResponseNormal", Ready>>,
     <<AwaitingActionResponse, "xdlms.ActionResponseNormalWithData", Ready>>,
     <<AwaitingActionResponse, "xdlms.ActionResponseNormalWithError", Ready>>,
     <<AwaitingReleaseResponse, "acse.ReleaseResponse", NoAssociation>>,
     <<AwaitingReleaseResponse, "xdlms.ExceptionResponse", Ready>>} \cup
    GetResponseRowOf(AwaitingGetResponse) \cup
    GetResponseRowOf(AwaitingGetBlockResponse)

\* The last ProcessEvent call agrees with table: an event struct is accepted
\* exactly when the table has a row for the state and the event's type, and
\* then the machine is in the row's target.
LastCallFollows(table) ==
    LET rows == {row \in table : row[1] = dlmsPrev /\ row[2] = dlmsEvent.type}
    IN  /\ (dlmsErr = "nil") <=> (rows # {})
        /\ \A row \in rows : dlmsState = row[3]

\* C1 as stated: ProcessEvent accepts a (state, event kind) pair if and only
\* if it is a row of the section 4.9 table and moves to the row's target; in
\* particular AwaitingGetBlockResponse accepts what AwaitingGetResponse
\* accepts, GetResponseNormal included.
C1_Original_TableWithSameGetBlockRow ==
    (SessionCalled /\ ~dlmsEvent.ptr) => LastCallFollows(SessionTable)

SessionTableAmended ==
    SessionTable \ {<<AwaitingGetBlockResponse, "xdlms.GetResponseNormal", Ready>>}

\* C1 amended: ProcessEvent accepts an event exactly when it is a struct
\* whose (state, type) pair is a row of the section 4.9 table other than
\* (AwaitingGetBlockResponse, GetResponseNormal), and then moves to the row's
\* target; AwaitingGetBlockResponse accepts GetResponseNormalWithError and
\* ExceptionResponse (to Ready) and GetResponseWithDataBlock (to
\* ShouldAckLastGetBlock) and rejects GetResponseNormal.
C1_SessionTable ==
    SessionCalled =>
        IF dlmsEvent.ptr
        THEN dlmsErr # "nil"
        ELSE LastCallFollows(SessionTableAmended)

C1_Witness ==
    /\ ByValue("xdlms.GetResponseNormal")
    /\ dlmsPrev = AwaitingGetBlockResponse
    /\ dlmsErr = "LocalDlmsProtocolError"
    /\ dlmsState = AwaitingGetBlockResponse

LinkTable ==
    {<<HdlcStateNotConnected, FrameTypeSetNormalResponseMode, HdlcStateAwaitingConnection>>,
     <<HdlcStateAwaitingConnection, FrameTypeUnNumberedAcknowledgment, HdlcStateIdle>>,
     <<HdlcStateIdle, FrameTypeInformation, HdlcStateAwaitingResponse>>,
     <<HdlcStateIdle, FrameTypeReceiveReady, HdlcStateAwaitingResponse>>,
     <<HdlcStateAwaitingResponse, FrameTypeInformation, HdlcStateIdle>>,
     <<HdlcStateAwaitingResponse, FrameTypeReceiveReady, HdlcStateIdle>>,
     <<HdlcStateIdle, FrameTypeDisconnect, HdlcStateAwaitingDisconnect>>,
     <<HdlcStateAwaitingDisconnect, FrameTypeUnNumberedAcknowledgment, HdlcStateNotConnected>>}

\* C3: ProcessFrame accepts a frame exactly when it is (a pointer to) one of
\* the five frame types and (state, frame type) is an arc of section 4.5, and
\* then moves to the arc's target; every other call, a value that is none of
\* the five frame types included, returns a LocalProtocolError.
C3_LinkTable ==
    LinkCalled =>
        LET arcs == {arc \in LinkTable :
                        /\ hdlcFrame.ptr
                        /\ arc[1] = hdlcPrev
                        /\ arc[2] = hdlcFrame.type}
        IN  /\ (hdlcErr = "nil") <=> (arcs # {})
            /\ \A arc \in arcs : hdlcState = arc[3]
            /\ (arcs = {}) => hdlcErr = "LocalProtocolError"

C3_Witness ==
    /\ LinkAccepted
    /\ hdlcPrev = HdlcStateAwaitingDisconnect
    /\ hdlcFrame.type = FrameTypeUnNumberedAcknowledgment
    /\ hdlcState = HdlcStateNotConnected

\* The last event was a GET data-block response whose last-block flag is set.
LastBlockArrived ==
    /\ SessionCalled
    /\ dlmsEvent.type = "xdlms.GetResponseWithDataBlock"
    /\ dlmsEvent.lastBlock

\* C4 as stated: in AwaitingGetResponse a data-block response that is not
\* the last block leads to ShouldAckLastGetBlock, GetRequestNext then leads
\* to AwaitingGetBlockResponse, and a data-block response with last-block=1
\* processed there returns the machine to Ready.
C4_Original_LastBlockEndsInReady ==
    /\ (/\ ByValue("xdlms.GetResponseWithDataBlock")
        /\ ~dlmsEvent.lastBlock
        /\ dlmsPrev = AwaitingGetResponse) => dlmsState = ShouldAckLastGetBlock
    /\ (/\ ByValue("xdlms.GetRequestNext")
        /\ dlmsPrev = ShouldAckLastGetBlock) => dlmsState = AwaitingGetBlockResponse
    /\ (/\ LastBlockArrived
        /\ ~dlmsEvent.ptr
        /\ dlmsPrev = AwaitingGetBlockResponse) => dlmsState = Ready

\* C5: while the machine is in ShouldAckLastGetBlock or
\* AwaitingGetBlockResponse every GetRequestNormal and GetRequestWithList is
\* rejected and the state kept, and the only GET request accepted is a
\* GetRequestNext in ShouldAckLastGetBlock.
C5_OneBlockTransfer ==
    (/\ SessionCalled
     /\ dlmsPrev \in {ShouldAckLastGetBlock, AwaitingGetBlockResponse}
     /\ dlmsEvent.type \in GetRequestTypes) =>
        /\ (dlmsErr = "nil") <=>
              /\ ~dlmsEvent.ptr
              /\ dlmsEvent.type = "xdlms.GetRequestNext"
              /\ dlmsPrev = ShouldAckLastGetBlock
        /\ (dlmsErr # "nil") =>
              dlmsErr = "LocalDlmsProtocolError" /\ dlmsState = dlmsPrev

C5_Witness ==
    /\ ByValue("xdlms.GetRequestNormal")
    /\ dlmsPrev = ShouldAckLastGetBlock
    /\ lastBlockNumber >= 1
    /\ dlmsErr = "LocalDlmsProtocolError"
    /\ dlmsState = ShouldAckLastGetBlock

\* The last event was an AARE struct whose result is a rejection.
RejectedAare ==
    /\ ByValue("acse.ApplicationAssociationResponse")
    /\ dlmsEvent.result \in {AssociationResultRejectedPermanent,
                             AssociationResultRejectedTransient}

\* C6 as stated: an AARE with a rejected result processed in
\* AwaitingAssociationResponse leaves the machine in
\* AwaitingAssociationResponse, where EndAssociation is accepted and leads to
\* NoAssociation.
C6_Original_RejectedAareStays ==
    /\ (RejectedAare /\ dlmsPrev = AwaitingAssociationResponse) =>
          dlmsState = AwaitingAssociationResponse
    /\ (ByValue("EndAssociation") /\ dlmsPrev = AwaitingAssociationResponse) =>
          dlmsErr = "nil" /\ dlmsState = NoAssociation

\* C6 amended: an AARE processed in AwaitingAssociationResponse moves the
\* machine to Ready whatever its result, rejected-permanent and
\* rejected-transient included; EndAssociation is rejected in
\* AwaitingAssociationResponse and leaves the state; it is in Ready that
\* EndAssociation (or RejectAssociation) is accepted and leads to
\* NoAssociation.
C6_RejectedAareEntersReady ==
    /\ (/\ ByValue("acse.ApplicationAssociationResponse")
        /\ dlmsPrev = AwaitingAssociationResponse) =>
          dlmsErr = "nil" /\ dlmsState = Ready
    /\ (/\ SessionCalled
        /\ dlmsEvent.type = "EndAssociation"
        /\ dlmsPrev = AwaitingAssociationResponse) =>
          dlmsErr = "LocalDlmsProtocolError" /\ dlmsState = AwaitingAssociationResponse
    /\ (/\ (ByValue("EndAssociation") \/ ByValue("RejectAssociation"))
        /\ dlmsPrev = Ready) =>
          dlmsErr = "nil" /\ dlmsState = NoAssociation

C6_Witness ==
    /\ RejectedAare
    /\ dlmsEvent.result = AssociationResultRejectedPermanent
    /\ dlmsPrev = AwaitingAssociationResponse
    /\ dlmsErr = "nil"
    /\ dlmsState = Ready

\* C7 as stated: a GetRequestNext accepted in ShouldAckLastGetBlock carries
\* the block-number of the GetResponseWithDataBlock accepted most recently.
C7_Original_NextAcksLastBlock ==
    (/\ SessionAccepted
     /\ dlmsEvent.type = "xdlms.GetRequestNext"
     /\ dlmsPrev = ShouldAckLastGetBlock
     /\ lastBlockNumber >= 1) =>
        dlmsEvent.blockNumber = lastBlockNumber

\* The states in which a request is outstanding.
AwaitingResponseStates ==
    {AwaitingGetResponse, AwaitingGetBlockResponse, AwaitingSetResponse,
     AwaitingActionResponse}

\* C8 as stated: a response accepted in an Awaiting*Response state carries
\* the invoke-id of the request accepted last.
C8_Original_InvokeIdMatches ==
    (/\ SessionAccepted
     /\ dlmsEvent.type \in ResponseTypes
     /\ dlmsPrev \in AwaitingResponseStates
     /\ requestInvokeId >= 0) =>
        dlmsEvent.invokeId = requestInvokeId

\* The last frame was a DisconnectFrame passed right after a rejected frame.
DiscAfterRejection ==
    /\ LinkCalled
    /\ hdlcPrevErr = "LocalProtocolError"
    /\ hdlcFrame.ptr
    /\ hdlcFrame.type = FrameTypeDisconnect

\* C9 as stated: a DisconnectFrame passed right after a rejected frame in
\* AwaitingConnection, Idle or AwaitingResponse is accepted and leads to
\* AwaitingDisconnect.
C9_Original_DiscRecovers ==
    (/\ DiscAfterRejection
     /\ hdlcPrev \in {HdlcStateAwaitingConnection, HdlcStateIdle,
                      HdlcStateAwaitingResponse}) =>
        hdlcErr = "nil" /\ hdlcState = HdlcStateAwaitingDisconnect

\* C9 amended: a DisconnectFrame passed right after a rejected frame is
\* accepted only in Idle, where it leads to AwaitingDisconnect; in every
\* other state, AwaitingConnection and AwaitingResponse included, it is
\* rejected with a LocalProtocolError and the state is kept.
C9_DiscRecoversInIdleOnly ==
    DiscAfterRejection =>
        IF hdlcPrev = HdlcStateIdle
        THEN hdlcErr = "nil" /\ hdlcState = HdlcStateAwaitingDisconnect
        ELSE hdlcErr = "LocalProtocolError" /\ hdlcState = hdlcPrev

C9_Witness ==
    /\ DiscAfterRejection
    /\ hdlcPrev = HdlcStateAwaitingResponse
    /\ hdlcErr = "LocalProtocolError"
    /\ hdlcState = HdlcStateAwaitingResponse

\* C10: IsSendState is true exactly in NotConnected and Idle, IsReceiveState
\* exactly in AwaitingConnection, AwaitingResponse and AwaitingDisconnect,
\* and in every state the link machine reaches exactly one of the two holds.
C10_SendXorReceive ==
    /\ \A state \in HdlcState :
          /\ IsSendState(state) <=>
                state \in {HdlcStateNotConnected, HdlcStateIdle}
          /\ IsReceiveState(state) <=>
                state \in {HdlcStateAwaitingConnection, HdlcStateAwaitingResponse,
                           HdlcStateAwaitingDisconnect}
    /\ IsSendState(hdlcState) # IsReceiveState(hdlcState)

C10_Witness ==
    /\ LinkAccepted
    /\ hdlcFrame.type = FrameTypeDisconnect
    /\ hdlcState = HdlcStateAwaitingDisconnect
    /\ IsReceiveState(hdlcState)
    /\ ~IsSendState(hdlcState)

(***************************************************************************)
(* Properties of the codecs                                                *)
(***************************************************************************)
ParsedFrameKinds == {"UA", "RR", "I", "DISC"}

\* C11: for every UA, RR, I and DISC frame with well-formed addresses,
\* payload, sequence numbers (0..7) and flags, ToBytes returns a byte
\* sequence, and the FromBytes of the frame type gives back, from these
\* bytes, a frame equal to the one encoded.
C11_Original_FrameRoundTrip ==
    (/\ op = "ToBytes"
     /\ arg.x.kind \in ParsedFrameKinds
     /\ arg.x.ssn <= 7
     /\ arg.x.rsn <= 7)
    => /\ ret.st = "ok"
       /\ FrameFromBytes(arg.x.kind, ret.val) = Result("ok", arg.x)

\* C12: the SNRM frame from client 0x10 to the server of logical address 1
\* is encoded as 7E A0 07 03 21 93, the FCS of the six bytes A0 07 03 21 93
\* (most significant byte first) and 7E: length 7, control 0x93, no HCS.
C12_Original_SnrmBytes ==
    (/\ op = "ToBytes"
     /\ arg.x.kind = "SNRM"
     /\ HdlcAddressToBytes(arg.x.dest) = <<3>>
     /\ HdlcAddressToBytes(arg.x.src) = <<33>>)
    => ret = Result("ok", <<126, 160, 7, 3, 33, 147>>
                          \o CalculateFor(<<160, 7, 3, 33, 147>>) \o <<126>>)

\* C13: HCS() of every frame the library builds returns; it returns two
\* bytes when the information field of the frame has at least one byte and
\* no byte when the information field is empty.
C13_Original_HcsIffInformation ==
    op = "HCS"
    => /\ ret.st = "ok"
       /\ (Len(ret.val) > 0) <=> (Len(Information(arg.x)) > 0)

\* C14: for every address NewHdlcAddress accepts, ToBytes gives 1, 2 or 4
\* bytes, exactly 1 for a client address, and the last byte is the only
\* one whose least significant bit is set.
C14_AddressBytes ==
    op = "HdlcAddress.ToBytes"
    => /\ Len(ret) \in {1, 2, 4}
       /\ arg.x.type = "client" => Len(ret) = 1
       /\ \A i \in 1..Len(ret) : (ret[i] % 2 = 1) <=> (i = Len(ret))

C14_Witness ==
    /\ op = "HdlcAddress.ToBytes"
    /\ arg.x.type = "server"
    /\ arg.x.logical = 16
    /\ arg.x.physical = 127
    /\ ret = <<32, 255>>

\* C15: for every send and receive sequence number given to
\* NewInformationFrame or NewReceiveReadyFrame, encoding the control field of
\* the frame returns one byte, whose three-bit fields hold the numbers
\* modulo 8.
C15_Original_SequenceNumbersWrap ==
    (op = "GetControlField" /\ arg.x.kind \in {"I", "RR"})
    => /\ ret.st = "ok"
       /\ ret.val[1] \div 32 = arg.x.rsn % 8
       /\ arg.x.kind = "I" => (ret.val[1] \div 2) % 8 = arg.x.ssn % 8

\* C16: FromBytes of the UA, RR, I and DISC frames returns a frame or an
\* error for every byte sequence; it never panics.
C16_Original_ParsersTotal ==
    op = "FromBytes" => ret.st \in {"ok", "error"}

\* C17: the receiver of a byte sequence and its CRC accepts them as sent,
\* and rejects them after any one bit of the bytes or of the CRC was
\* flipped; the CRC of the bytes with one bit flipped differs from the CRC of
\* the bytes.
C17_SingleBitFlipDetected ==
    op = "CalculateFor"
    => /\ ret.verified
       /\ ~ret.flippedVerified
       /\ ret.bit < 8 * Len(arg.x) => ret.calculated # ret.crc

C17_Witness ==
    /\ op = "CalculateFor"
    /\ arg.x = <<126, 255>>
    /\ ret.bit = 15
    /\ ret.calculated # ret.crc
    /\ ~ret.flippedVerified

\* C18: every ReleaseRequest and ReleaseResponse, with or without a reason and
\* without user information, encodes to a tagged, length-prefixed APDU (the
\* request without a field to 62 00), and FromBytes of these bytes succeeds
\* and returns an APDU equal to the one encoded.
C18_Original_ReleaseRoundTrip ==
    op = "Release.ToBytes"
    => /\ Len(ret.bytes) >= 2
       /\ ret.bytes[1] = (IF arg.x.apdu = "RLRQ" THEN RLRQTag ELSE RLRETag)
       /\ ret.bytes[2] = Len(ret.bytes) - 2
       /\ arg.x = [apdu |-> "RLRQ", reason |-> -1] => ret.bytes = <<RLRQTag, 0>>
       /\ ret.back = Result("ok", arg.x)

\* C19: an ActionResponseNormalWithData is encoded as its status, the
\* has-data flag 1, the choice byte 0 and then the payload, and for every
\* status and payload the APDU factory turns these bytes back into an
\* ActionResponseNormalWithData with the same status and payload.
C19_Original_ActionResponseWithData ==
    op = "ActionResponseNormalWithData.ToBytes"
    => /\ ret.bytes = <<ActionResponseTag, ActionTypeNormal>>
                        \o InvokeIdAndPriorityToBytes(arg.x.invokeIdAndPriority)
                        \o <<arg.x.status, 1, 0>> \o arg.x.data
       /\ ret.back.st = "ok"
       /\ ret.back.val.apdu = "ActionResponseNormalWithData"
       /\ ret.back.val.status = arg.x.status
       /\ ret.back.val.data = arg.x.data

\* C20: the bytes of an ExceptionResponse end with the four-byte big-endian
\* invocation counter exactly when its service exception is
\* InvocationCounterError, FromBytes of the bytes of every ExceptionResponse
\* succeeds and equals it, and D8 01 06 00 00 12 34 parses to state 1,
\* service 6 and counter 0x1234 and encodes to the same bytes again.
C20_Original_ExceptionCounter ==
    /\ op = "ExceptionResponse.ToBytes"
       => /\ Len(ret.bytes) = (IF arg.x.serviceError = ServiceExceptionInvocationCounterError
                               THEN 7 ELSE 3)
          /\ ret.back = Result("ok", arg.x)
    /\ (op = "ExceptionResponse.FromBytes" /\ arg.x = <<216, 1, 6, 0, 0, 18, 52>>)
       => /\ ret.parsed = Result("ok", [stateError |-> 1, serviceError |-> 6,
                                         invocationCounterData |-> 4660])
          /\ ret.bytes = arg.x

\* The tags the factory is said to know, and the APDU each is said to be
\* parsed as (a GET response of type 1: by its choice byte).
C21_Tags ==
    {1, 8, 15, 33, 40, 96, 97, 98, 99, 192, 193, 195, 196, 197, 199, 216, 219}

\* C21: APDUFromBytes hands bytes whose first byte is one of {01, 08, 0F, 21,
\* 28, 60..63, C0, C1, C3, C4, C5, C7, D8, DB} to the parser of that APDU (a
\* GET response of type 1 to GetResponseNormal for choice 0 and to
\* GetResponseNormalWithError for choice 1), and fails with the unknown-tag
\* error for every other first byte and for empty input.
C21_Original_FactoryDispatch ==
    op = "APDUFromBytes"
    => /\ (arg.x # <<>> /\ arg.x[1] \in C21_Tags /\ Len(arg.x) >= 5)
            => ret.st = "ok"
       /\ (Len(arg.x) >= 5 /\ arg.x[1] = 196 /\ arg.x[2] = 1)
            => ret.val = (IF arg.x[4] = 0 THEN "GetResponseNormal"
                          ELSE "GetResponseNormalWithError")
       /\ (arg.x = <<>> \/ arg.x[1] \notin C21_Tags)
            => ret.st = "error"

\* C22: GetRequestNormal.ToBytes for interface class 3, OBIS 1-0:1.8.0.255,
\* attribute 2 and no access selection yields C0 01 <invoke-id-and-priority>
\* 00 03 01 00 01 08 00 FF 02 00, and FromBytes of these bytes returns a
\* request with the same descriptor, the same invoke-id-and-priority and no
\* access selection.
C22_GetRequestNormalBytes ==
    (/\ op = "GetRequestNormal.ToBytes"
     /\ arg.x.cosemAttribute = [interface |-> 3, instance |-> <<1, 0, 1, 8, 0, 255>>,
                                attribute |-> 2])
    => /\ ret.bytes = <<192, 1>> \o InvokeIdAndPriorityToBytes(arg.x.invokeIdAndPriority)
                        \o <<0, 3, 1, 0, 1, 8, 0, 255, 2, 0>>
       /\ ret.back.st = "ok"
       /\ ret.back.val.cosemAttribute = arg.x.cosemAttribute
       /\ ret.back.val.invokeIdAndPriority = arg.x.invokeIdAndPriority
       /\ ret.back.val.accessSelection = "nil"

C22_Witness ==
    /\ op = "GetRequestNormal.ToBytes"
    /\ arg.x.cosemAttribute = [interface |-> 3, instance |-> <<1, 0, 1, 8, 0, 255>>,
                               attribute |-> 2]
    /\ ret.bytes = <<192, 1, 193, 0, 3, 1, 0, 1, 8, 0, 255, 2, 0>>
    /\ ret.back.st = "ok"

\* C23: for every DLMS data value the factory knows (null, boolean, integer,
\* long, double-long, unsigned, long-unsigned, double-long-unsigned,
\* octet-string, visible-string, and arrays and structures of these) ToBytes
\* succeeds, and the A-XDR decoder with one Sequence element turns the bytes
\* into a value structurally equal to the original.
C23_Original_AXdrRoundTrip ==
    op = "DlmsData.ToBytes"
    => /\ ret.bytes.st = "ok"
       /\ ret.back = Result("ok", ToPython(arg.x))

\* C24: BER.Decode(data, 1) succeeds exactly when the byte after the tag
\* equals the number of bytes that follow it, and then returns the tag, that
\* length and those bytes; so decoding what Encode made of a tag and 1 to 255
\* bytes gives them back, while Encode of no bytes returns no bytes at all.
C24_BerDecodeEncode ==
    /\ op = "BER.Decode"
       => /\ ret.st = "ok" <=> (Len(arg.x) >= 2 /\ arg.x[2] = Len(arg.x) - 2)
          /\ ret.st = "ok" => ret.val = [tag |-> <<arg.x[1]>>, length |-> arg.x[2],
                                         data |-> Drop(arg.x, 2)]
    /\ op = "BER.Encode"
       => /\ Len(arg.x) = 0 => ret.bytes = <<>>
          /\ Len(arg.x) \in 1..255
                => ret.back = Result("ok", [tag |-> <<arg.tag>>, length |-> Len(arg.x),
                                            data |-> arg.x])

C24_Witness ==
    /\ op = "BER.Encode"
    /\ Len(arg.x) = 255
    /\ ret.bytes[2] = 255
    /\ ret.back.st = "ok"
    /\ ret.back.val.data = arg.x

\* C25: for each of the 17 named conformance flags, ToBytes of a block with
\* only that flag set returns four bytes, the unused-bits octet 0 and the
\* 24-bit value big-endian with exactly the documented bit set, and FromBytes
\* of those bytes returns a block with exactly that flag set.
C25_Original_ConformanceBits ==
    (op = "Conformance.ToBytes" /\ Cardinality(arg.x) = 1)
    => \A flag \in arg.x :
        /\ ret.bytes = Result("ok", <<0, (2^ConformanceBitPosition[flag] \div 65536) % 256,
                                       (2^ConformanceBitPosition[flag] \div 256) % 256,
                                       2^ConformanceBitPosition[flag] % 256>>)
        /\ ret.back = Result("ok", {flag})

\* C26: for every invoke-id in 0..15 and every combination of the confirmed
\* and high-priority flags, ToBytes yields one byte with the invoke-id in
\* bits 0..3, confirmed in bit 6 and high-priority in bit 7, and FromBytes of
\* that byte returns the same three values; the constructor rejects
\* invoke-ids above 15.
C26_InvokeIdAndPriorityByte ==
    op = "NewInvokeIdAndPriority"
    => /\ arg.x.invokeId > 15 => ret.new.st = "error"
       /\ arg.x.invokeId <= 15
            => /\ ret.new = Result("ok", arg.x)
               /\ Len(ret.bytes) = 1
               /\ ret.bytes[1] % 16 = arg.x.invokeId
               /\ (ret.bytes[1] \div 16) % 4 = 0
               /\ ((ret.bytes[1] \div 64) % 2 = 1) = arg.x.confirmed
               /\ ((ret.bytes[1] \div 128) % 2 = 1) = arg.x.highPriority
               /\ ret.back = arg.x

C26_Witness ==
    /\ op = "NewInvokeIdAndPriority"
    /\ arg.x = [invokeId |-> 15, confirmed |-> TRUE, highPriority |-> FALSE]
    /\ ret.bytes = <<79>>
    /\ ret.back = arg.x

\* C27: FromString("1-0:1.8.0.255"), FromString("1.0.1.8.0.255") and
\* FromBytes([1,0,1,8,0,255]) all succeed and return equal codes; the
\* canonical string A-B:C.D.E.F produced by String() is accepted by
\* FromString and parses back to the same code, a five-part string defaults F
\* to 255, and any component above 255 is rejected.
C27_Original_ObisParsing ==
    op = "cosem.FromString"
    => \A o \in ObisCodes :
        /\ arg.x \in {ObisToString(o, ""), ObisToString(o, ".")}
            => /\ ret = Result("ok", o)
               /\ ret = ObisFromBytes(ObisToBytes(o))
        /\ arg.x = Sprintf(SubSeq(o, 1, 5), Dots)
            => ret = Result("ok", [o EXCEPT ![6] = 255])
        /\ arg.x \in {Sprintf([o EXCEPT ![i] = 256], Dots) : i \in 1..6}
            => ret.st = "error"

\* C28: the nine-byte COSEM attribute descriptor preserves its 16-bit
\* big-endian interface-class-id: for every nine-byte sequence b,
\* CosemAttribute.FromBytes(b) succeeds and ToBytes of the result equals b,
\* including when the high byte of the interface-class-id is non-zero.
C28_Original_NineByteDescriptor ==
    (op = "CosemAttribute.FromBytes" /\ Len(arg.x) = CosemAttributeLength)
    => /\ ret.attr.st = "ok"
       /\ ret.bytes = arg.x

\* The tags of the objects an encoded association APDU holds, one after the
\* other, behind its own tag and length.
ObjectTags(apdu) ==
    LET tags[i \in Nat] ==
            IF i + 1 > Len(apdu) THEN {}
            ELSE {apdu[i]} \cup tags[i + 2 + apdu[i + 1]]
    IN  tags[3]

\* C29: in every AARQ and AARE the library encodes, the acse-requirements
\* field (0x8A / 0x88) and the mechanism-name field (0x8B / 0x89) are both
\* absent when the authentication mechanism is unset or none, and both
\* present for every other mechanism; an encoded APDU never contains exactly
\* one of the two.
C29_AcseFieldsTogether ==
    /\ (op = "ApplicationAssociationRequest.ToBytes" /\ ret.st = "ok")
        => IF arg.x.authentication \in {-1, AuthenticationMechanismNone}
           THEN ObjectTags(ret.val) \cap {138, 139} = {}
           ELSE {138, 139} \subseteq ObjectTags(ret.val)
    /\ (op = "ApplicationAssociationResponse.ToBytes" /\ ret.st = "ok")
        => IF arg.x.authentication \in {-1, AuthenticationMechanismNone}
           THEN ObjectTags(ret.val) \cap {136, 137} = {}
           ELSE {136, 137} \subseteq ObjectTags(ret.val)

C29_Witness ==
    /\ op = "ApplicationAssociationResponse.ToBytes"
    /\ arg.x.authentication = 5
    /\ arg.x.authenticationValue # <<>>
    /\ ret.st = "ok"
    /\ {136, 137, 170} \subseteq ObjectTags(ret.val)

\* C30: parsing an AARQ or AARE whose application-context-name ends in
\* context-id 2 or 4 (short-name referencing) returns an error and no APDU
\* object, whatever the other fields are; context-ids 1 and 3 are accepted
\* and yield ciphered=false and ciphered=true respectively.
C30_Original_ShortNameRejected ==
    /\ op = "ApplicationAssociationRequest.FromBytes"
        => /\ arg.x.contextId \in {2, 4} => ret.st = "error"
           /\ (arg.x.contextId \in {1, 3} /\ arg.x.userInformation)
                => /\ ret.st = "ok"
                   /\ ret.val.ciphered = (arg.x.contextId = 3)
    /\ op = "ApplicationAssociationResponse.FromBytes"
        => /\ arg.x.contextId \in {2, 4} => ret.st = "error"
           /\ (arg.x.contextId \in {1, 3} /\ arg.x.result)
                => /\ ret.st = "ok"
                   /\ ret.val.ciphered = (arg.x.contextId = 3)

\* C31: for every APDU kind that the factory can parse and that the session
\* table lists, handing the object returned by XDlmsApduFactory.APDUFromBytes
\* (a pointer to the parsed APDU) to ProcessEvent in a state whose row lists
\* that kind is accepted and performs the listed transition.
C31_Original_InboundAccepted ==
    (/\ dlmsEvent.ptr
     /\ dlmsEvent.type \in
            {"acse.ApplicationAssociationResponse", "acse.ReleaseResponse",
             "xdlms.GetResponseNormal", "xdlms.GetResponseNormalWithError",
             "xdlms.GetResponseWithDataBlock", "xdlms.SetResponseNormal",
             "xdlms.ActionResponseNormal", "xdlms.ActionResponseNormalWithData",
             "xdlms.ActionResponseNormalWithError", "xdlms.ExceptionResponse",
             "xdlms.DataNotification"}
     /\ dlmsPrev \in DOMAIN dlmsStateTransitions
     /\ ElemOfPtr(dlmsEvent.type) \in DOMAIN dlmsStateTransitions[dlmsPrev])
    => /\ dlmsErr = "nil"
       /\ dlmsState = dlmsStateTransitions[dlmsPrev][ElemOfPtr(dlmsEvent.type)]

\* C32: InformationFrame.FromBytes accepts a well-formed I-frame (correct
\* length field, HCS and FCS over the bytes as received) whose information
\* field starts with the LLC response header E7 E7 00, and returns a frame
\* whose payload is the information field without that header; the same holds
\* for the command header E6 E6 00.
C32_Original_LlcHeaderStripped ==
    \A llc \in {LLCCommandHeader, LLCResponseHeader} :
        (op = "FromBytes" /\ arg.kind = "I" /\ arg.x = InformationWire(llc, <<196, 1>>))
        => /\ ret.st = "ok"
           /\ ret.val.payload = <<196, 1>>

\* C33: when the decoder reads a variable-length element inside a Sequence
\* it consumes the A-XDR length prefix and then exactly that many bytes: the
\* octet string 09 01 41 decodes to the one byte 41, the visible string
\* 0A 02 41 42 to the bytes 41 42, and the array 01 00, whose element count
\* is zero, to an empty array.
C33_Original_LengthPrefixConsumed ==
    op = "AXdrDecoder.Decode"
    => /\ arg.x = <<9, 1, 65>>
            => ret = Result("ok", Data("[]byte", 0, <<65>>, <<>>))
       /\ arg.x = <<10, 2, 65, 66>>
            => ret = Result("ok", Data("string", 0, <<65, 66>>, <<>>))
       /\ arg.x = <<1, 0>>
            => ret = Result("ok", Data("[]interface{}", 0, <<>>, <<>>))

\* C34: HLS handshake ordering.  ShouldSendHlsServerChallengeResult is
\* entered only by HlsStart accepted in Ready, and each later HLS state only
\* from the one before it: by ActionRequestNormal, then by
\* ActionResponseNormalWithData.  Ready is reached from an HLS state only by
\* HlsSuccess accepted in HlsDone.  ActionResponseNormal,
\* ActionResponseNormalWithError and HlsFailed lead to NoAssociation, and
\* every other event given in one of the three HLS states is rejected and
\* leaves the state as it was.
C34_HlsHandshakeOrdering ==
    LET given == dlmsEvent # NoEvent
        accepted == given /\ dlmsErr = "nil"
        type == dlmsEvent.type
        hls == {ShouldSendHlsServerChallengeResult, AwaitingHlsClientChallengeResult,
                HlsDone}
        Step(from, struct, to) ==
            accepted /\ dlmsPrev = from /\ type = struct /\ ~dlmsEvent.ptr
            /\ dlmsState = to
    IN  /\ (accepted /\ dlmsState = ShouldSendHlsServerChallengeResult)
                => Step(Ready, "HlsStart", ShouldSendHlsServerChallengeResult)
        /\ (accepted /\ dlmsState = AwaitingHlsClientChallengeResult)
                => Step(ShouldSendHlsServerChallengeResult, "xdlms.ActionRequestNormal",
                        AwaitingHlsClientChallengeResult)
        /\ (accepted /\ dlmsState = HlsDone)
                => Step(AwaitingHlsClientChallengeResult,
                        "xdlms.ActionResponseNormalWithData", HlsDone)
        /\ (accepted /\ dlmsPrev \in hls /\ dlmsState = Ready)
                => Step(HlsDone, "HlsSuccess", Ready)
        /\ (accepted /\ dlmsPrev \in hls /\ dlmsState \notin hls \cup {Ready})
                => \/ Step(AwaitingHlsClientChallengeResult, "xdlms.ActionResponseNormal",
                           NoAssociation)
                   \/ Step(AwaitingHlsClientChallengeResult,
                           "xdlms.ActionResponseNormalWithError", NoAssociation)
                   \/ Step(HlsDone, "HlsFailed", NoAssociation)
        /\ (given /\ dlmsPrev \in hls /\ ~accepted)
                => /\ dlmsErr = "LocalDlmsProtocolError"
                   /\ dlmsState = dlmsPrev
                   /\ \/ dlmsEvent.ptr
                      \/ ElemOfPtr(type) \notin DOMAIN dlmsStateTransitions[dlmsPrev]
        /\ (given /\ dlmsPrev \in hls /\ ~dlmsEvent.ptr
            /\ ElemOfPtr(type) \in DOMAIN dlmsStateTransitions[dlmsPrev])
                => accepted

\* The handshake completes: HlsSuccess is accepted in HlsDone.
C34_Witness ==
    /\ dlmsPrev = HlsDone
    /\ dlmsEvent.type = "HlsSuccess"
    /\ dlmsErr = "nil"
    /\ dlmsState = Ready

\* C35: for every address NewHdlcAddress accepts, the bytes of ToBytes placed
\* at the destination or at the source position of a frame are found again by
\* FindAddressInFrameBytes as the same logical address, the same physical
\* address (or none) and a Length equal to the number of bytes.
C35_Original_AddressRoundTrip ==
    op = "FindAddressInFrameBytes"
    => /\ ret.asDestination.st = "ok"
       /\ ret.asSource.st = "ok"
       /\ \A found \in {ret.asDestination.val.dest, ret.asSource.val.src} :
             /\ found.logical = arg.x.logical
             /\ found.physical = arg.x.physical
             /\ found.length = Len(ret.bytes)

\* C36: for send and receive sequence numbers in 0..7 and both values of
\* final, InformationControlField.ToBytes gives the one byte
\* (n_s << 1) | (n_r << 5) | (final ? 0x10 : 0), whose bit 0 is clear, and
\* FromBytes of that byte gives the same three values; FromBytes rejects
\* every byte whose bit 0 is set, and the constructor rejects a sequence
\* number above 7.
C36_InformationControlField ==
    /\ op = "NewInformationControlField"
       => IF arg.x.ssn > 7 \/ arg.x.rsn > 7
          THEN ret.field.st = "error"
          ELSE /\ ret.field.st = "ok"
               /\ ret.bytes = <<arg.x.ssn * 2 + arg.x.rsn * 32
                                + (IF arg.x.final THEN 16 ELSE 0)>>
               /\ ret.bytes[1] % 2 = 0
               /\ ret.back = Result("ok", arg.x)
    /\ (op = "InformationControlField.FromBytes" /\ Len(arg.x) = 1 /\ arg.x[1] % 2 = 1)
       => ret.st = "error"

\* Send number 3, receive number 5, final: the byte B6, read back.
C36_Witness ==
    /\ op = "NewInformationControlField"
    /\ arg.x = [ssn |-> 3, rsn |-> 5, final |-> TRUE]
    /\ ret.bytes = <<182>>
    /\ ret.back.val = [ssn |-> 3, rsn |-> 5, final |-> TRUE]

\* C38: half-duplex turn-taking in the link machine.  Every frame ProcessFrame
\* accepts flips the machine between a send state and a receive state: if
\* IsSendState() held before the call, IsReceiveState() holds after it, and
\* the other way round; the state before the call is one or the other.
C38_HalfDuplexTurnTaking ==
    (hdlcFrame # NoFrame /\ hdlcErr = "nil")
    => /\ IsSendState(hdlcPrev) \/ IsReceiveState(hdlcPrev)
       /\ IsSendState(hdlcPrev) => (IsReceiveState(hdlcState) /\ ~IsSendState(hdlcState))
       /\ IsReceiveState(hdlcPrev) => (IsSendState(hdlcState) /\ ~IsReceiveState(hdlcState))

\* A receive-ready frame accepted in AwaitingResponse after the machine was
\* connected: the turn goes back to the sender.
C38_Witness ==
    /\ hdlcPrev = HdlcStateAwaitingResponse
    /\ hdlcFrame.type = FrameTypeReceiveReady
    /\ hdlcErr = "nil"
    /\ hdlcState = HdlcStateIdle

\* C37: association before service.  In a machine that starts in
\* NoAssociation, a GET, SET or ACTION request, a ReleaseRequest, HlsStart or
\* DataNotification is accepted only when an ApplicationAssociationRequest
\* and then an ApplicationAssociationResponse were accepted earlier and
\* NoAssociation was not current since; Ready is current only then, and it
\* is entered from the two states before the association only by an
\* ApplicationAssociationResponse accepted in AwaitingAssociationResponse.
C37_AssociationBeforeService ==
    LET accepted == dlmsEvent # NoEvent /\ dlmsErr = "nil"
        service == RequestTypes \cup
                   {"acse.ReleaseRequest", "HlsStart", "xdlms.DataNotification"}
    IN  /\ (accepted /\ dlmsEvent.type \in service) => association = "established"
        /\ dlmsState = Ready => association = "established"
        /\ (accepted /\ dlmsState = Ready
            /\ dlmsPrev \in {NoAssociation, AwaitingAssociationResponse})
           => /\ dlmsPrev = AwaitingAssociationResponse
              /\ dlmsEvent.type = "acse.ApplicationAssociationResponse"

\* A GET request accepted in Ready, after the association was established.
C37_Witness ==
    /\ dlmsPrev = Ready
    /\ dlmsEvent.type = "xdlms.GetRequestNormal"
    /\ dlmsErr = "nil"
    /\ dlmsState = AwaitingGetResponse
    /\ association = "established"

\* C39: no dead end in either state machine.  Every state the machines reach
\* from NotConnected and from NoAssociation has a row with at least one frame
\* or event it accepts, and from it accepted frames or events lead to the
\* initial state again.
C39_NoDeadEnd ==
    LET hdlcNext == [s \in HdlcState |-> {HdlcRow(s)[t] : t \in DOMAIN HdlcRow(s)}]
        dlmsNext == [s \in State |->
                        IF s \in DOMAIN dlmsStateTransitions
                        THEN {dlmsStateTransitions[s][t] :
                                 t \in DOMAIN dlmsStateTransitions[s]}
                        ELSE {}]
        RECURSIVE Closure(_, _)
        Closure(next, states) ==
            LET more == states \cup UNION {next[s] : s \in states}
            IN  IF more = states THEN states ELSE Closure(next, more)
    IN  /\ hdlcNext[hdlcState] # {}
        /\ HdlcStateNotConnected \in Closure(hdlcNext, hdlcNext[hdlcState])
        /\ dlmsNext[dlmsState] # {}
        /\ NoAssociation \in Closure(dlmsNext, dlmsNext[dlmsState])

\* The link machine in AwaitingResponse after an accepted I-frame: it accepts
\* an I-frame or RR, and Idle, DISC and UA lead back to NotConnected.
C39_Witness ==
    /\ hdlcPrev = HdlcStateIdle
    /\ hdlcFrame.type = FrameTypeInformation
    /\ hdlcErr = "nil"
    /\ hdlcState = HdlcStateAwaitingResponse

\* C40: the declared states HdlcStateClosed and HdlcStateNeedData of the link
\* machine and NeedData of the session machine are never entered by event
\* processing: no sequence of ProcessFrame calls from NotConnected and no
\* sequence of ProcessEvent calls from NoAssociation makes one of them the
\* current state.
C40_SentinelStatesNeverEntered ==
    /\ hdlcState \notin {HdlcStateClosed, HdlcStateNeedData}
    /\ dlmsState # NeedData

\* The session machine back in NoAssociation after a release: a whole cycle
\* of events was processed.
C40_Witness ==
    /\ dlmsPrev = AwaitingReleaseResponse
    /\ dlmsEvent.type = "acse.ReleaseResponse"
    /\ dlmsErr = "nil"
    /\ dlmsState = NoAssociation
    /\ association = "none"

====
